---- MODULE Spec2Model ----
(***************************************************************************)
(* Send jobs of the desktop client (apps/desktop/src): the browser-runtime *)
(* job flow of services/backend.ts (createMockSendingFlow), the startSend  *)
(* and cancelSend entry points, and the App handlers that drive them.      *)
(*                                                                         *)
(* JavaScript runs every handler, timer callback and canceller to          *)
(* completion, so each of them is one action.                              *)
(***************************************************************************)
EXTENDS Integers, Sequences, FiniteSets, TLC

\* ------------------------------------------------------------------ bounds
MaxRecipients == 2
MaxDelay == 2
MaxCancels == 2
MaxClears == 1
MaxRetries == 1

\* ------------------------------------------------------------------ inputs
\* Job ids: startSend gives every job a fresh id (randomJobId).
JobIds == {"job-1", "job-2"}

\* An email is its sequence of characters.
OkEmail == <<"a", "@", "x">>
FailEmail == <<"f", "a", "i", "l", "@", "x">>
FailMarker == <<"f", "a", "i", "l">>

RecipientPool ==
  { [email |-> OkEmail, name |-> "A"], [email |-> FailEmail, name |-> "F"] }

RECURSIVE SeqsUpTo(_, _)
SeqsUpTo(S, n) ==
  IF n = 0 THEN { <<>> }
  ELSE LET shorter == SeqsUpTo(S, n - 1)
       IN shorter \cup { Append(s, x) : s \in { t \in shorter : Len(t) = n - 1 }, x \in S }

RecipientLists == SeqsUpTo(RecipientPool, MaxRecipients)

DelayValues == 0..MaxDelay

\* The part of a SendPayload the flow reads.
Payloads ==
  [ recipients : RecipientLists,
    options : [ min_delay_sec : DelayValues, max_delay_sec : DelayValues ] ]

\* ------------------------------------------------------------------ helpers
Max(a, b) == IF a >= b THEN a ELSE b
Min(a, b) == IF a <= b THEN a ELSE b

\* String.prototype.includes
Includes(s, sub) ==
  \E i \in 1..(Len(s) - Len(sub) + 1) : SubSeq(s, i, i + Len(sub) - 1) = sub

\* ------------------------------------------------------------------ state
VARIABLES
  flows,        \* job id -> closure state of one createMockSendingFlow call, or NoFlow
  timerQueue,   \* pending window.setTimeout callbacks: records [job, id, callback]
  nextTimerId,  \* the id the next window.setTimeout returns
  events,       \* the events passed to onEvent so far, in call order
  isSending,    \* App state isSending
  cancelClicks, \* number of handleCancelSend calls that reached backend.cancelSend
  minDelaySec,  \* App state minDelaySec
  maxDelaySec,  \* App state maxDelaySec
  recipients,   \* App state recipients
  bodyText,     \* App state bodyText
  skipSent,     \* App state skipSent
  clearRequests, \* number of backend.clearSentRecords calls made by the App
  summary,      \* App state summary
  worker,       \* Tauri runtime: the state of the send job engine behind start_send
  gatewayCalls, \* Tauri runtime: the delivery attempts made, as [job_id, index, error]
  emitted,      \* Tauri runtime: the events the engine has emitted, in emission order
  channel,      \* Tauri runtime: events emitted on 'worker-event', not yet delivered
  listeners,    \* Tauri runtime: job id -> is the listener of its startSend call attached
  received,     \* Tauri runtime: the events passed to onEvent, as [sink, event]
  sentStore,    \* Tauri runtime: the normalized emails of the sent records
  callOutcomes, \* Tauri runtime: how the start_send and cancel_send calls made so far ended
  pickedDelay,  \* a pickDelay call on its own: the bounds in halves of a second, the delay
  smtpTest,     \* App: the SMTP form, the state of the connection test and its interval timer
  draft         \* App: the draft fields, draftHydrated and the draft in localStorage

\* the form fields of the App
uiVars == <<minDelaySec, maxDelaySec, recipients, bodyText, skipSent>>

\* the state of the Tauri runtime
tauriVars == <<worker, gatewayCalls, emitted, channel, listeners, received, sentStore>>

\* what the page keeps besides the send job
localVars == <<smtpTest, draft>>

pageVars == <<callOutcomes, pickedDelay, localVars>>

vars == <<flows, timerQueue, nextTimerId, events, isSending, cancelClicks, clearRequests,
          summary, uiVars, tauriVars, pageVars>>

\* ------------------------------------------------------------------ App form
DefaultMinDelaySec == 5

DEFAULT_SMTP_HOST == <<"h">>

DEFAULT_SMTP_PORT == 465

\* the fields of AppDraft at their initial values (three of the nine: two
\* strings and the number)
DefaultDraft ==
  [senderEmail |-> <<>>, smtpHost |-> DEFAULT_SMTP_HOST, smtpPort |-> DEFAULT_SMTP_PORT]
DefaultMaxDelaySec == 10
MaxDelayInput == 600
AppRetryCount == 3

\* A body text is its sequence of pieces, a placeholder being one piece.
TEACHER_TOKEN == "{teacher_name}"
SENDER_TOKEN == "{sender_name}"
DATE_TOKEN == "{send_date}"
REQUIRED_TEMPLATE_TOKENS == <<TEACHER_TOKEN, SENDER_TOKEN, DATE_TOKEN>>

DEFAULT_BODY_TEXT == <<"Dear ", TEACHER_TOKEN, ": hello.">>
FullBodyText == <<"Dear ", TEACHER_TOKEN, ": hello. ", SENDER_TOKEN, ", ", DATE_TOKEN>>
BodyTexts == { DEFAULT_BODY_TEXT, FullBodyText }

\* the recipients loadRecipients returns in the browser runtime
PreviewRecipients ==
  << [email |-> <<"t","e","a","c","h","e","r","1","@","e","x","a","m","p","l","e",".","c","o","m">>,
      name |-> "Zhang"],
     [email |-> <<"t","e","a","c","h","e","r","2","@","e","x","a","m","p","l","e",".","c","o","m">>,
      name |-> "Li"],
     [email |-> <<"t","e","a","c","h","e","r","3","@","e","x","a","m","p","l","e",".","c","o","m">>,
      name |-> "Wang"] >>

NoFlow == [created |-> FALSE]

\* closure state right after the declarations of createMockSendingFlow
NewFlow(payload, sink) ==
  [ created |-> TRUE,
    sink |-> sink,
    payload |-> payload,
    recipients |-> payload.recipients,
    minDelay |-> Max(0, Min(payload.options.min_delay_sec, payload.options.max_delay_sec)),
    maxDelay |-> Max(0, Max(payload.options.min_delay_sec, payload.options.max_delay_sec)),
    cursor |-> 0,
    success |-> 0,
    failed |-> 0,
    cancelled |-> FALSE,
    timer |-> 0,
    failures |-> <<>>,
    delaySec |-> 0,
    remainingSec |-> 0,
    currentIndex |-> 0 ]

\* the engine with no job
IdleWorker == [state |-> "idle"]

\* no startSend call was made for the job: attached is the registration on
\* 'worker-event', dispose the variable of startSend ("null" or "unlisten"),
\* disposals the number of unlisten calls, call and pc the progress of the
\* startSend call
NoListener ==
  [attached |-> FALSE, sink |-> "none", dispose |-> "null", disposals |-> 0,
   call |-> "none", pc |-> 0, payload |-> <<>>]

\* the SMTP form and the connection test when AppContent is first rendered
InitialSmtpTest ==
  [senderEmail |-> <<>>, smtpHost |-> DEFAULT_SMTP_HOST, smtpPort |-> DEFAULT_SMTP_PORT,
   smtpPassword |-> <<>>,
   isTestingSmtp |-> FALSE, smtpTestState |-> "idle", smtpTestElapsedSec |-> 0,
   smtpTestTickerRef |-> 0, intervals |-> {}, nextInterval |-> 1,
   call |-> <<>>, tests |-> 0]

\* the draft fields when AppContent is first rendered, with nothing in
\* localStorage and no effect run yet
InitialDraft ==
  [draftHydrated |-> FALSE, phase |-> "rendered", effectDeps |-> <<>>, stored |-> <<>>,
   reloads |-> 0]

\* the page right after loading, whatever the sent records hold
InitPage ==
  /\ flows = [j \in JobIds |-> NoFlow]
  /\ timerQueue = {}
  /\ nextTimerId = 1
  /\ events = <<>>
  /\ isSending = FALSE
  /\ cancelClicks = 0
  /\ minDelaySec = DefaultMinDelaySec
  /\ maxDelaySec = DefaultMaxDelaySec
  /\ recipients = <<>>
  /\ bodyText = DEFAULT_BODY_TEXT
  /\ skipSent = TRUE
  /\ clearRequests = 0
  /\ summary = [total |-> 0, success |-> 0, failed |-> 0, skipped |-> 0]
  /\ worker = IdleWorker
  /\ gatewayCalls = <<>>
  /\ emitted = <<>>
  /\ channel = <<>>
  /\ listeners = [j \in JobIds |-> NoListener]
  /\ received = <<>>
  /\ callOutcomes = {}
  /\ pickedDelay = [called |-> FALSE]
  /\ smtpTest = InitialSmtpTest
  /\ draft = InitialDraft

\* the page right after loading, with no sent records
Init == InitPage /\ sentStore = {}

\* ------------------------------------------------------------------ events
JobAccepted(j) == [type |-> "job_accepted", job_id |-> j]
JobStarted(j, total) == [type |-> "job_started", job_id |-> j, total |-> total]
RecipientStarted(j, index, target) ==
  [type |-> "recipient_started", job_id |-> j, index |-> index,
   email |-> target.email, name |-> target.name]
RecipientSent(j, index, target) ==
  [type |-> "recipient_sent", job_id |-> j, index |-> index,
   email |-> target.email, name |-> target.name]
RecipientFailed(j, index, target, error) ==
  [type |-> "recipient_failed", job_id |-> j, index |-> index,
   email |-> target.email, name |-> target.name, error |-> error]
InterSendWait(j, index, delaySec, remainingSec) ==
  [type |-> "inter_send_wait", job_id |-> j, index |-> index, next_index |-> index + 1,
   delay_sec |-> delaySec, remaining_sec |-> remainingSec]
JobFinished(j, f) ==
  [type |-> "job_finished", job_id |-> j, success |-> f.success, failed |-> f.failed,
   skipped |-> 0, total |-> Len(f.recipients), failures |-> f.failures]
JobCancelled(j, f) ==
  [type |-> "job_cancelled", job_id |-> j, success |-> f.success, failed |-> f.failed,
   skipped |-> 0, total |-> Len(f.recipients)]

MockError == "mock send failed"

\* ------------------------------------------------------------------ the flow
\* A step of the flow works on st = [flow, queue, nextId, out]: the closure
\* state, the timer queue, the timer id source and the events emitted so far
\* in this step.

\* the values pickDelay can return
PickDelay(f) ==
  IF f.maxDelay <= f.minDelay THEN { f.minDelay } ELSE f.minDelay..f.maxDelay

emitFinished(st, j) == [st EXCEPT !.out = Append(@, JobFinished(j, st.flow))]

\* schedule that keeps the id of the first timer of the job
scheduleKeepsFirstTimer(st, j, callback) ==
  IF st.flow.cancelled THEN st
  ELSE [st EXCEPT !.flow.timer = IF @ = 0 THEN st.nextId ELSE @,
                  !.queue = @ \cup { [job |-> j, id |-> st.nextId, callback |-> callback] },
                  !.nextId = @ + 1]

schedule(st, j, callback) ==
  IF st.flow.cancelled THEN st
  ELSE [st EXCEPT !.flow.timer = st.nextId,
                  !.queue = @ \cup { [job |-> j, id |-> st.nextId, callback |-> callback] },
                  !.nextId = @ + 1]

\* waitTick that ends the wait one tick early
waitTickStopsAtOne(st, j) ==
  IF st.flow.cancelled THEN st
  ELSE IF st.flow.remainingSec <= 1
    THEN schedule([st EXCEPT !.flow.delaySec = 0, !.flow.currentIndex = 0], j, "runNext")
    ELSE schedule(
           [st EXCEPT !.out = Append(@, InterSendWait(j, st.flow.currentIndex,
                                                      st.flow.delaySec, st.flow.remainingSec)),
                      !.flow.remainingSec = @ - 1],
           j, "waitTick")

\* waitTick that schedules no runNext when the wait is over
waitTickForgetsRunNext(st, j) ==
  IF st.flow.cancelled THEN st
  ELSE IF st.flow.remainingSec <= 0
    THEN [st EXCEPT !.flow.delaySec = 0, !.flow.currentIndex = 0]
    ELSE schedule(
           [st EXCEPT !.out = Append(@, InterSendWait(j, st.flow.currentIndex,
                                                      st.flow.delaySec, st.flow.remainingSec)),
                      !.flow.remainingSec = @ - 1],
           j, "waitTick")

waitTick(st, j) ==
  IF st.flow.cancelled THEN st
  ELSE IF st.flow.remainingSec <= 0
    THEN schedule([st EXCEPT !.flow.delaySec = 0, !.flow.currentIndex = 0], j, "runNext")
    ELSE schedule(
           [st EXCEPT !.out = Append(@, InterSendWait(j, st.flow.currentIndex,
                                                      st.flow.delaySec, st.flow.remainingSec)),
                      !.flow.remainingSec = @ - 1],
           j, "waitTick")

\* processRecipient with a 0-based index in its events
processRecipientZeroBased(st, j) ==
  LET f == st.flow
      target == f.recipients[f.cursor + 1]
      index == f.cursor
      started == Append(st.out, RecipientStarted(j, index, target))
  IN IF Includes(target.email, FailMarker)
       THEN [st EXCEPT !.flow.failed = @ + 1,
                       !.flow.failures =
                          Append(@, [email |-> target.email, name |-> target.name,
                                     error |-> MockError]),
                       !.out = Append(started, RecipientFailed(j, index, target, MockError)),
                       !.flow.cursor = @ + 1]
       ELSE [st EXCEPT !.flow.success = @ + 1,
                       !.out = Append(started, RecipientSent(j, index, target)),
                       !.flow.cursor = @ + 1]

\* processRecipient whose success branch also runs after a failure
processRecipientNoElse(st, j) ==
  LET f == st.flow
      target == f.recipients[f.cursor + 1]
      index == f.cursor + 1
      started == Append(st.out, RecipientStarted(j, index, target))
      failedOut == Append(started, RecipientFailed(j, index, target, MockError))
  IN IF Includes(target.email, FailMarker)
       THEN [st EXCEPT !.flow.failed = @ + 1,
                       !.flow.failures =
                          Append(@, [email |-> target.email, name |-> target.name,
                                     error |-> MockError]),
                       !.flow.success = @ + 1,
                       !.out = Append(failedOut, RecipientSent(j, index, target)),
                       !.flow.cursor = @ + 1]
       ELSE [st EXCEPT !.flow.success = @ + 1,
                       !.out = Append(started, RecipientSent(j, index, target)),
                       !.flow.cursor = @ + 1]

\* processRecipient that moves the cursor by two
processRecipientSkipsOne(st, j) ==
  LET f == st.flow
      target == f.recipients[f.cursor + 1]
      index == f.cursor + 1
      started == Append(st.out, RecipientStarted(j, index, target))
  IN IF Includes(target.email, FailMarker)
       THEN [st EXCEPT !.flow.failed = @ + 1,
                       !.flow.failures =
                          Append(@, [email |-> target.email, name |-> target.name,
                                     error |-> MockError]),
                       !.out = Append(started, RecipientFailed(j, index, target, MockError)),
                       !.flow.cursor = @ + 2]
       ELSE [st EXCEPT !.flow.success = @ + 1,
                       !.out = Append(started, RecipientSent(j, index, target)),
                       !.flow.cursor = @ + 2]

\* processRecipient that counts a failure without recording it
processRecipientForgetsFailure(st, j) ==
  LET f == st.flow
      target == f.recipients[f.cursor + 1]
      index == f.cursor + 1
      started == Append(st.out, RecipientStarted(j, index, target))
  IN IF Includes(target.email, FailMarker)
       THEN [st EXCEPT !.flow.failed = @ + 1,
                       !.out = Append(started, RecipientFailed(j, index, target, MockError)),
                       !.flow.cursor = @ + 1]
       ELSE [st EXCEPT !.flow.success = @ + 1,
                       !.out = Append(started, RecipientSent(j, index, target)),
                       !.flow.cursor = @ + 1]

\* processRecipient that takes the recipients from the end of the list
processRecipientBackwards(st, j) ==
  LET f == st.flow
      target == f.recipients[Len(f.recipients) - f.cursor]
      index == f.cursor + 1
      started == Append(st.out, RecipientStarted(j, index, target))
  IN IF Includes(target.email, FailMarker)
       THEN [st EXCEPT !.flow.failed = @ + 1,
                       !.flow.failures =
                          Append(@, [email |-> target.email, name |-> target.name,
                                     error |-> MockError]),
                       !.out = Append(started, RecipientFailed(j, index, target, MockError)),
                       !.flow.cursor = @ + 1]
       ELSE [st EXCEPT !.flow.success = @ + 1,
                       !.out = Append(started, RecipientSent(j, index, target)),
                       !.flow.cursor = @ + 1]

\* the recipient part of runNext: recipient_started, the outcome, cursor += 1
processRecipient(st, j) ==
  LET f == st.flow
      target == f.recipients[f.cursor + 1]
      index == f.cursor + 1
      started == Append(st.out, RecipientStarted(j, index, target))
  IN IF Includes(target.email, FailMarker)
       THEN [st EXCEPT !.flow.failed = @ + 1,
                       !.flow.failures =
                          Append(@, [email |-> target.email, name |-> target.name,
                                     error |-> MockError]),
                       !.out = Append(started, RecipientFailed(j, index, target, MockError)),
                       !.flow.cursor = @ + 1]
       ELSE [st EXCEPT !.flow.success = @ + 1,
                       !.out = Append(started, RecipientSent(j, index, target)),
                       !.flow.cursor = @ + 1]

\* runNext that takes the last but one recipient for the last
runNextFinishesEarly(st, j, delaySec) ==
  IF st.flow.cancelled THEN st
  ELSE IF st.flow.cursor >= Len(st.flow.recipients) THEN emitFinished(st, j)
  ELSE LET index == st.flow.cursor + 1
           done == processRecipient(st, j)
       IN IF done.flow.cursor >= Len(done.flow.recipients) - 1 THEN emitFinished(done, j)
          ELSE IF delaySec <= 0 THEN schedule(done, j, "runNext")
          ELSE waitTick([done EXCEPT !.flow.delaySec = delaySec,
                                     !.flow.remainingSec = delaySec,
                                     !.flow.currentIndex = index], j)

\* runNext that reports a wait of zero seconds
runNextWaitsOnZero(st, j, delaySec) ==
  IF st.flow.cancelled THEN st
  ELSE IF st.flow.cursor >= Len(st.flow.recipients) THEN emitFinished(st, j)
  ELSE LET index == st.flow.cursor + 1
           done == processRecipient(st, j)
       IN IF done.flow.cursor >= Len(done.flow.recipients) THEN emitFinished(done, j)
          ELSE IF delaySec <= 0
            THEN schedule([done EXCEPT !.out = Append(@, InterSendWait(j, index, 0, 0))],
                          j, "runNext")
          ELSE waitTick([done EXCEPT !.flow.delaySec = delaySec,
                                     !.flow.remainingSec = delaySec,
                                     !.flow.currentIndex = index], j)

\* runNext that paces after the last recipient as after any other
runNextPacesAfterLast(st, j, delaySec) ==
  IF st.flow.cancelled THEN st
  ELSE IF st.flow.cursor >= Len(st.flow.recipients) THEN emitFinished(st, j)
  ELSE LET index == st.flow.cursor + 1
           done == processRecipient(st, j)
       IN IF delaySec <= 0 THEN schedule(done, j, "runNext")
          ELSE waitTick([done EXCEPT !.flow.delaySec = delaySec,
                                     !.flow.remainingSec = delaySec,
                                     !.flow.currentIndex = index], j)

\* runNext that gives the job up after a failed recipient
runNextAbortsOnFailure(st, j, delaySec) ==
  IF st.flow.cancelled THEN st
  ELSE IF st.flow.cursor >= Len(st.flow.recipients) THEN emitFinished(st, j)
  ELSE LET index == st.flow.cursor + 1
           done == processRecipient(st, j)
       IN IF done.out[Len(done.out)].type = "recipient_failed" THEN done
          ELSE IF done.flow.cursor >= Len(done.flow.recipients) THEN emitFinished(done, j)
          ELSE IF delaySec <= 0 THEN schedule(done, j, "runNext")
          ELSE waitTick([done EXCEPT !.flow.delaySec = delaySec,
                                     !.flow.remainingSec = delaySec,
                                     !.flow.currentIndex = index], j)

\* runNext that reads the length of the list from the form of the App
runNextReadsForm(st, j, delaySec) ==
  IF st.flow.cancelled THEN st
  ELSE IF st.flow.cursor >= Len(st.flow.recipients) THEN emitFinished(st, j)
  ELSE LET index == st.flow.cursor + 1
           done == processRecipient(st, j)
       IN IF done.flow.cursor >= Len(recipients) THEN emitFinished(done, j)
          ELSE IF delaySec <= 0 THEN schedule(done, j, "runNext")
          ELSE waitTick([done EXCEPT !.flow.delaySec = delaySec,
                                     !.flow.remainingSec = delaySec,
                                     !.flow.currentIndex = index], j)

\* runNext; delaySec is the value pickDelay returns in this call
runNext(st, j, delaySec) ==
  IF st.flow.cancelled THEN st
  ELSE IF st.flow.cursor >= Len(st.flow.recipients) THEN emitFinished(st, j)
  ELSE LET index == st.flow.cursor + 1
           done == processRecipient(st, j)
       IN IF done.flow.cursor >= Len(done.flow.recipients) THEN emitFinished(done, j)
          ELSE IF delaySec <= 0 THEN schedule(done, j, "runNext")
          ELSE waitTick([done EXCEPT !.flow.delaySec = delaySec,
                                     !.flow.remainingSec = delaySec,
                                     !.flow.currentIndex = index], j)

\* a canceller that reports the cancellation and leaves the loop running
cancellerKeepsLoop(st, j) == [st EXCEPT !.out = Append(@, JobCancelled(j, st.flow))]

\* the canceller createMockSendingFlow returns
canceller(st, j) ==
  LET flagged == [st EXCEPT !.flow.cancelled = TRUE]
      cleared == IF flagged.flow.timer # 0
                   THEN [flagged EXCEPT !.queue = { t \in @ : t.id # flagged.flow.timer },
                                        !.flow.timer = 0]
                   ELSE flagged
  IN [cleared EXCEPT !.out = Append(@, JobCancelled(j, cleared.flow))]

\* createMockSendingFlow that announces the start before the acceptance
createMockSendingFlowStartedFirst(st, j) ==
  schedule([st EXCEPT !.out = st.out \o << JobStarted(j, Len(st.flow.recipients)),
                                           JobAccepted(j) >>],
           j, "runNext")

\* createMockSendingFlow up to its return
createMockSendingFlow(st, j) ==
  schedule([st EXCEPT !.out = st.out \o << JobAccepted(j),
                                           JobStarted(j, Len(st.flow.recipients)) >>],
           j, "runNext")

\* ------------------------------------------------------------------ App
TerminalTypes == {"job_finished", "job_cancelled", "error"}

\* App.handleEvent, the isSending part
handleEvent(sending, e) == IF e.type \in TerminalTypes THEN FALSE ELSE sending

RECURSIVE handleEvents(_, _)
handleEvents(sending, evs) ==
  IF evs = <<>> THEN sending ELSE handleEvents(handleEvent(sending, Head(evs)), Tail(evs))

\* handleEvent that counts a failed recipient as sent
handleEventSummaryFailedAsSent(prev, e) ==
  CASE e.type = "job_started" ->
         [total |-> e.total, success |-> 0, failed |-> 0, skipped |-> 0]
    [] e.type = "recipient_sent" -> [prev EXCEPT !.success = @ + 1]
    [] e.type = "recipient_failed" -> [prev EXCEPT !.success = @ + 1]
    [] e.type = "recipient_skipped" -> [prev EXCEPT !.skipped = @ + 1]
    [] e.type \in {"job_finished", "job_cancelled"} ->
         [total |-> e.total, success |-> e.success, failed |-> e.failed,
          skipped |-> e.skipped]
    [] OTHER -> prev

\* App.handleEvent, the summary part
handleEventSummary(prev, e) ==
  CASE e.type = "job_started" ->
         [total |-> e.total, success |-> 0, failed |-> 0, skipped |-> 0]
    [] e.type = "recipient_sent" -> [prev EXCEPT !.success = @ + 1]
    [] e.type = "recipient_failed" -> [prev EXCEPT !.failed = @ + 1]
    [] e.type = "recipient_skipped" -> [prev EXCEPT !.skipped = @ + 1]
    [] e.type \in {"job_finished", "job_cancelled"} ->
         [total |-> e.total, success |-> e.success, failed |-> e.failed,
          skipped |-> e.skipped]
    [] OTHER -> prev

RECURSIVE handleEventsSummary(_, _)
handleEventsSummary(prev, evs) ==
  IF evs = <<>> THEN prev
  ELSE handleEventsSummary(handleEventSummary(prev, Head(evs)), Tail(evs))

\* the state after a step st of job j: onEvent is the App's handleEvent for a
\* job the App started, the caller's own handler otherwise
Commit(st, j, sendingBefore) ==
  /\ flows' = [flows EXCEPT ![j] = st.flow]
  /\ timerQueue' = st.queue
  /\ nextTimerId' = st.nextId
  /\ events' = events \o st.out
  /\ isSending' = IF st.flow.sink = "app" THEN handleEvents(sendingBefore, st.out)
                  ELSE sendingBefore
  /\ summary' = IF st.flow.sink = "app" THEN handleEventsSummary(summary, st.out)
                ELSE summary

Step(j, q) == [flow |-> flows[j], queue |-> q, nextId |-> nextTimerId, out |-> <<>>]

CancelledCount(j) ==
  Len(SelectSeq(events, LAMBDA e : e.job_id = j /\ e.type = "job_cancelled"))

\* ------------------------------------------------------------------ actions
\* backend.startSend called by a caller that keeps the returned canceller
StartSend(j, payload) ==
  /\ flows[j] = NoFlow
  /\ Commit(createMockSendingFlow(
              [flow |-> NewFlow(payload, "caller"), queue |-> timerQueue,
               nextId |-> nextTimerId, out |-> <<>>], j),
            j, isSending)
  /\ UNCHANGED <<cancelClicks, clearRequests, uiVars, tauriVars, pageVars>>

\* a pending runNext timer fires
RunNextTimer(t) ==
  /\ t \in timerQueue
  /\ t.callback = "runNext"
  /\ \E d \in PickDelay(flows[t.job]) :
       Commit(runNext(Step(t.job, timerQueue \ {t}), t.job, d), t.job, isSending)
  /\ UNCHANGED <<cancelClicks, clearRequests, uiVars, tauriVars, pageVars>>

\* a pending waitTick timer fires
WaitTickTimer(t) ==
  /\ t \in timerQueue
  /\ t.callback = "waitTick"
  /\ Commit(waitTick(Step(t.job, timerQueue \ {t}), t.job), t.job, isSending)
  /\ UNCHANGED <<cancelClicks, clearRequests, uiVars, tauriVars, pageVars>>

\* the caller invokes the canceller startSend returned
Cancel(j) ==
  /\ flows[j].created
  /\ flows[j].sink = "caller"
  /\ CancelledCount(j) < MaxCancels
  /\ Commit(canceller(Step(j, timerQueue), j), j, isSending)
  /\ UNCHANGED <<cancelClicks, clearRequests, uiVars, tauriVars, pageVars>>

\* App.handleStartSend.  It returns early, changing nothing, while isSending,
\* when senderEmail is empty, when ensureSmtpReady or ensureRuntimeReady
\* fails (formReady is the outcome of these three checks) and when no
\* recipients are loaded; otherwise it sets isSending and calls startSend
\* with handleEvent, dropping the canceller startSend returns.
HandleStartSend(j, payload, formReady) ==
  /\ ~isSending
  /\ formReady
  /\ Len(payload.recipients) # 0
  /\ flows[j] = NoFlow
  /\ Commit(createMockSendingFlow(
              [flow |-> NewFlow(payload, "app"), queue |-> timerQueue,
               nextId |-> nextTimerId, out |-> <<>>], j),
            j, TRUE)
  /\ UNCHANGED <<cancelClicks, clearRequests, uiVars, tauriVars, pageVars>>

\* App.handleCancelSend.  It returns early unless isSending; otherwise it
\* calls backend.cancelSend, which returns at once in the browser runtime.
HandleCancelSend ==
  /\ isSending
  /\ cancelClicks < MaxCancels
  /\ cancelClicks' = cancelClicks + 1
  /\ UNCHANGED <<summary, tauriVars, pageVars>>
  /\ UNCHANGED <<flows, timerQueue, nextTimerId, events, isSending, clearRequests, uiVars>>

\* the values an InputNumber with the given min and max hands to onChange:
\* <<>> for a cleared field (null), <<n>> for a number within min and max
InputNumberValues(lo, hi) ==
  { <<>> } \cup { <<n>> : n \in { m \in DelayValues : lo <= m /\ m <= hi } }

\* v ?? 0
OrZero(v) == IF v = <<>> THEN 0 ELSE v[1]

\* the onChange of the minimum delay input, disabled while isSending
SetMinDelaySec(v) ==
  /\ ~isSending
  /\ v \in InputNumberValues(0, maxDelaySec)
  /\ minDelaySec' = OrZero(v)
  /\ UNCHANGED <<summary, tauriVars, pageVars>>
  /\ UNCHANGED <<flows, timerQueue, nextTimerId, events, isSending, cancelClicks,
                 clearRequests, maxDelaySec, recipients, bodyText, skipSent>>

\* the onChange of the maximum delay input, disabled while isSending
SetMaxDelaySec(v) ==
  /\ ~isSending
  /\ v \in InputNumberValues(minDelaySec, MaxDelayInput)
  /\ maxDelaySec' = OrZero(v)
  /\ UNCHANGED <<summary, tauriVars, pageVars>>
  /\ UNCHANGED <<flows, timerQueue, nextTimerId, events, isSending, cancelClicks,
                 clearRequests, minDelaySec, recipients, bodyText, skipSent>>

\* the onChange of the body text area
SetBodyText(text) ==
  /\ bodyText' = text
  /\ UNCHANGED <<summary, tauriVars, pageVars>>
  /\ UNCHANGED <<flows, timerQueue, nextTimerId, events, isSending, cancelClicks,
                 clearRequests, minDelaySec, maxDelaySec, recipients, skipSent>>

\* App.handleLoadRecipients in the browser runtime; it returns early unless
\* ensureRuntimeReady holds (runtimeReady)
HandleLoadRecipients(runtimeReady) ==
  /\ runtimeReady
  /\ recipients' = PreviewRecipients
  /\ UNCHANGED <<summary, tauriVars, pageVars>>
  /\ UNCHANGED <<flows, timerQueue, nextTimerId, events, isSending, cancelClicks,
                 clearRequests, minDelaySec, maxDelaySec, bodyText, skipSent>>

\* the onChange of the skip-sent checkbox, disabled while isSending
SetSkipSent(checked) ==
  /\ ~isSending
  /\ skipSent' = checked
  /\ UNCHANGED <<summary, tauriVars, pageVars>>
  /\ UNCHANGED <<flows, timerQueue, nextTimerId, events, isSending, cancelClicks,
                 clearRequests, minDelaySec, maxDelaySec, recipients, bodyText>>

\* App.handleResetDraft once the user has confirmed, the fields the model
\* follows; its button is enabled while isSending too
HandleResetDraft ==
  /\ bodyText' = DEFAULT_BODY_TEXT
  /\ recipients' = <<>>
  /\ UNCHANGED <<summary, tauriVars, pageVars>>
  /\ UNCHANGED <<flows, timerQueue, nextTimerId, events, isSending, cancelClicks,
                 clearRequests, minDelaySec, maxDelaySec, skipSent>>

\* a clear button whose handler runs while isSending too
HandleClearSentRecordsWhileSending ==
  /\ clearRequests < MaxClears
  /\ clearRequests' = clearRequests + 1
  /\ UNCHANGED <<summary, tauriVars, pageVars>>
  /\ UNCHANGED <<flows, timerQueue, nextTimerId, events, isSending, cancelClicks, uiVars>>

\* App.handleClearSentRecords behind its button, disabled while isSending;
\* backend.clearSentRecords returns at once in the browser runtime
HandleClearSentRecords ==
  /\ ~isSending
  /\ clearRequests < MaxClears
  /\ clearRequests' = clearRequests + 1
  /\ UNCHANGED <<summary, tauriVars, pageVars>>
  /\ UNCHANGED <<flows, timerQueue, nextTimerId, events, isSending, cancelClicks, uiVars>>

\* App.buildSendPayload, the fields the model follows
buildSendPayload ==
  [ recipients |-> recipients,
    options |-> [ min_delay_sec |-> minDelaySec, max_delay_sec |-> maxDelaySec,
                  randomize_order |-> TRUE, retry_count |-> AppRetryCount,
                  skip_sent |-> skipSent ],
    template |-> [ body_text |-> bodyText ] ]

\* the tokens of REQUIRED_TEMPLATE_TOKENS a body text lacks
missingTokens(text) ==
  SelectSeq(REQUIRED_TEMPLATE_TOKENS, LAMBDA token : ~Includes(text, <<token>>))

\* ------------------------------------------------------------------ Tauri runtime: the engine
\* The send job engine behind the start_send and cancel_send commands.  Its
\* code is not among the sources; it is modelled from the specification.

\* recipients whose emails differ in case only
UpperEmail == <<"A", "@", "x">>

TauriPool ==
  { [email |-> OkEmail, name |-> "A"], [email |-> UpperEmail, name |-> "B"] }

\* the sent records an installation may hold when the page loads
OtherEmail == <<"b", "@", "x">>

InitialStores == { {}, { OkEmail }, { OtherEmail } }

InitTauri == InitPage /\ sentStore \in InitialStores

\* the part of a SendPayload the engine reads, with a pacing of at most one
\* second
TauriPayloads ==
  [ recipients : SeqsUpTo(TauriPool, MaxRecipients),
    options : [ min_delay_sec : {0}, max_delay_sec : {0, 1},
                retry_count : 0..MaxRetries, skip_sent : BOOLEAN ] ]

\* the lower-case form of a character of an email
LowerChar(c) ==
  CASE c = "A" -> "a"
    [] c = "B" -> "b"
    [] c = "T" -> "t"
    [] OTHER -> c

\* the normalized (lower-cased) email
Normalized(email) == [ k \in 1..Len(email) |-> LowerChar(email[k]) ]

\* the error event: it has no job_id
ErrorEvent(error) == [type |-> "error", error |-> error]

RecipientSkipped(j, index, target) ==
  [type |-> "recipient_skipped", job_id |-> j, index |-> index, email |-> target.email,
   name |-> target.name, reason |-> "already_sent"]

\* the error of the k-th delivery attempt
AttemptError(k) == << "attempt", k >>

\* the engine right after it accepted a job
AcceptedWorker(j, payload) ==
  [ state |-> "running",
    job_id |-> j,
    payload |-> payload,
    recipients |-> payload.recipients,
    phase |-> "accepted",
    cursor |-> 0,
    success |-> 0,
    failed |-> 0,
    skipped |-> 0,
    failures |-> <<>>,
    cancelRequested |-> FALSE,
    delaySec |-> 0,
    remainingSec |-> 0 ]

WorkerFinished(w) ==
  [type |-> "job_finished", job_id |-> w.job_id, success |-> w.success,
   failed |-> w.failed, skipped |-> w.skipped, total |-> Len(w.recipients),
   failures |-> w.failures]

WorkerCancelled(w) ==
  [type |-> "job_cancelled", job_id |-> w.job_id, success |-> w.success,
   failed |-> w.failed, skipped |-> w.skipped, total |-> Len(w.recipients)]

\* the engine puts events on the channel
Emit(out) ==
  /\ emitted' = emitted \o out
  /\ channel' = channel \o out

\* the state of the browser runtime and of the App
mockVars == <<flows, timerQueue, nextTimerId, events, isSending, cancelClicks, clearRequests,
              summary, uiVars>>

jsVars == <<mockVars, pageVars>>

\* Accepted -> Running: job_started, then the loop
WorkerStart ==
  /\ worker.state = "running"
  /\ worker.phase = "accepted"
  /\ worker' = [worker EXCEPT !.phase = "loop"]
  /\ Emit(<< JobStarted(worker.job_id, Len(worker.recipients)) >>)
  /\ UNCHANGED <<jsVars, gatewayCalls, listeners, received, sentStore>>

\* the delays the pacing policy can return
PacingDelays(options) == options.min_delay_sec..options.max_delay_sec

\* delivery attempts with one retry more than the job allows
DeliveryAttemptsOneMore(j, index, retryCount, failedAttempts) ==
  [ k \in 1..Min(failedAttempts + 1, retryCount + 2) |->
      [job_id |-> j, index |-> index,
       error |-> IF k <= failedAttempts THEN AttemptError(k) ELSE <<>>] ]

\* the delivery attempts of one recipient: failedAttempts failures, then a
\* success if an attempt is left; no error marks the success
DeliveryAttempts(j, index, retryCount, failedAttempts) ==
  [ k \in 1..Min(failedAttempts + 1, retryCount + 1) |->
      [job_id |-> j, index |-> index,
       error |-> IF k <= failedAttempts THEN AttemptError(k) ELSE <<>>] ]

\* one turn of the loop: recipient_started, then recipient_skipped for a
\* recipient of the sent records, else the delivery attempts and
\* recipient_sent or recipient_failed; job_finished after the last
\* recipient, else the pacing delay
WorkerRecipient(failedAttempts, delay) ==
  /\ worker.state = "running"
  /\ worker.phase = "loop"
  /\ ~worker.cancelRequested
  /\ worker.cursor < Len(worker.recipients)
  /\ LET j == worker.job_id
         options == worker.payload.options
         index == worker.cursor + 1
         target == worker.recipients[index]
         skip == options.skip_sent /\ Normalized(target.email) \in sentStore
         calls == IF skip THEN <<>>
                  ELSE DeliveryAttempts(j, index, options.retry_count, failedAttempts)
         lastError == IF skip THEN <<>> ELSE calls[Len(calls)].error
         sent == ~skip /\ lastError = <<>>
         outcome == IF skip THEN RecipientSkipped(j, index, target)
                    ELSE IF sent THEN RecipientSent(j, index, target)
                    ELSE RecipientFailed(j, index, target, lastError)
         counted == [worker EXCEPT
                       !.cursor = index,
                       !.skipped = IF skip THEN @ + 1 ELSE @,
                       !.success = IF sent THEN @ + 1 ELSE @,
                       !.failed = IF ~skip /\ ~sent THEN @ + 1 ELSE @,
                       !.failures = IF ~skip /\ ~sent
                                      THEN Append(@, [email |-> target.email,
                                                      name |-> target.name,
                                                      error |-> lastError])
                                      ELSE @]
         last == index >= Len(worker.recipients)
         wait == ~last /\ ~skip /\ delay > 0
     IN /\ failedAttempts \in 0..(options.retry_count + 1)
        /\ delay \in PacingDelays(options)
        /\ skip => failedAttempts = 0
        /\ (last \/ skip) => delay = options.min_delay_sec
        /\ gatewayCalls' = gatewayCalls \o calls
        /\ sentStore' = IF sent THEN sentStore \cup { Normalized(target.email) } ELSE sentStore
        /\ worker' = IF last THEN IdleWorker
                      ELSE IF wait THEN [counted EXCEPT !.phase = "wait", !.delaySec = delay,
                                                        !.remainingSec = delay]
                      ELSE counted
        /\ Emit(<< RecipientStarted(j, index, target), outcome >>
                  \o IF last THEN << WorkerFinished(counted) >> ELSE <<>>)
  /\ UNCHANGED <<jsVars, listeners, received>>

\* one second of an inter-send wait
WorkerWaitTick ==
  /\ worker.state = "running"
  /\ worker.phase = "wait"
  /\ ~worker.cancelRequested
  /\ worker' = [worker EXCEPT !.remainingSec = @ - 1,
                               !.phase = IF worker.remainingSec <= 1 THEN "loop" ELSE "wait"]
  /\ Emit(<< InterSendWait(worker.job_id, worker.cursor, worker.delaySec,
                            worker.remainingSec) >>)
  /\ UNCHANGED <<jsVars, gatewayCalls, listeners, received, sentStore>>

\* the loop sees the cancellation flag at a loop boundary
WorkerObserveCancel ==
  /\ worker.state = "running"
  /\ worker.phase \in {"loop", "wait"}
  /\ worker.cancelRequested
  /\ worker' = IdleWorker
  /\ Emit(<< WorkerCancelled(worker) >>)
  /\ UNCHANGED <<jsVars, gatewayCalls, listeners, received, sentStore>>

\* an internal fault aborts the job
WorkerFault ==
  /\ worker.state = "running"
  /\ worker' = IdleWorker
  /\ Emit(<< ErrorEvent("fault") >>)
  /\ UNCHANGED <<jsVars, gatewayCalls, listeners, received, sentStore>>

\* ------------------------------------------------------------------ Tauri runtime: backend.ts and the App
\* invoke('start_send'): a running engine refuses the job and the promise
\* rejects; an empty recipient list is answered by an error event; otherwise
\* the job is accepted
StartSendRejects == worker.state = "running"

InvokeStartSend(j, payload) ==
  IF StartSendRejects THEN UNCHANGED <<worker, emitted, channel>>
  ELSE IF payload.recipients = <<>>
    THEN /\ UNCHANGED worker
         /\ Emit(<< ErrorEvent("rejected") >>)
    ELSE /\ worker' = AcceptedWorker(j, payload)
         /\ Emit(<< JobAccepted(j) >>)

\* invoke('cancel_send'): the request sets the cancellation flag of a running
\* job and is acknowledged at once
InvokeCancelSend ==
  worker' = IF worker.state = "running" THEN [worker EXCEPT !.cancelRequested = TRUE]
            ELSE worker

\* how a startSend call ended: whether start_send was rejected and whether
\* the caller of startSend got the error
StartOutcome(by, rejected, told) ==
  [call |-> "start_send", by |-> by, rejected |-> rejected, told |-> told]

\* how a cancel call ended: the state the engine was in and whether the
\* caller was told that no job was running
CancelOutcome(by, engine, told) ==
  [call |-> "cancel_send", by |-> by, engine |-> engine, told |-> told]

\* startSend that invokes start_send before it registers the listener
startSendInvokesFirst == << "start_send", "listen" >>

\* the awaits of startSend in the Tauri runtime, in program order
startSendSteps == << "listen", "start_send" >>

\* startSend was called for the sink and has done nothing yet
CalledListener(sink, payload) ==
  [NoListener EXCEPT !.sink = sink, !.call = "called", !.pc = 1, !.payload = payload]

\* dispose = await listen(WORKER_EVENT_CHANNEL, ...)
Listen(listener) == [listener EXCEPT !.attached = TRUE, !.dispose = "unlisten"]

\* dispose?.()
Dispose(listener) ==
  IF listener.dispose = "null" THEN listener
  ELSE [listener EXCEPT !.attached = FALSE, !.disposals = @ + 1]

\* dispose?.(); dispose = null
DisposeAndClear(listener) == [Dispose(listener) EXCEPT !.dispose = "null"]

\* the catch of startSend that rethrows and leaves the listener registered
StartRejectedKeepsListener(listener) ==
  [listener EXCEPT !.call = "threw", !.payload = <<>>]

\* the catch of startSend: the listener is disposed and the error rethrown
StartRejected(listener) ==
  [DisposeAndClear(listener) EXCEPT !.call = "threw", !.payload = <<>>]

\* startSend after the step at pc: it returns the canceller after the last
\* and has no use for the payload any more
Advance(listener) ==
  IF listener.pc >= Len(startSendSteps)
    THEN [listener EXCEPT !.pc = @ + 1, !.call = "returned", !.payload = <<>>]
    ELSE [listener EXCEPT !.pc = @ + 1]

\* the listener after a whole startSend call
StartedListener(sink, payload, rejected) ==
  LET listening == Advance(Listen(CalledListener(sink, payload)))
  IN IF rejected THEN StartRejected(listening) ELSE Advance(listening)

\* backend.startSend in the Tauri runtime, called by a caller that keeps the
\* returned canceller: the listener is registered, then start_send invoked;
\* a rejected invoke disposes the listener
TauriStartSend(j, payload) ==
  /\ listeners[j] = NoListener
  /\ InvokeStartSend(j, payload)
  /\ listeners' = [listeners EXCEPT ![j] = StartedListener("caller", payload, StartSendRejects)]
  /\ callOutcomes' = callOutcomes \cup { StartOutcome("caller", StartSendRejects, StartSendRejects) }
  /\ UNCHANGED <<pickedDelay, localVars>>
  /\ UNCHANGED <<mockVars, gatewayCalls, received, sentStore>>

\* App.handleStartSend in the Tauri runtime
TauriHandleStartSend(j, payload, formReady) ==
  /\ ~isSending
  /\ formReady
  /\ Len(payload.recipients) # 0
  /\ listeners[j] = NoListener
  /\ InvokeStartSend(j, payload)
  /\ listeners' = [listeners EXCEPT ![j] = StartedListener("app", payload, StartSendRejects)]
  /\ isSending' = ~StartSendRejects
  /\ callOutcomes' = callOutcomes \cup { StartOutcome("app", StartSendRejects, StartSendRejects) }
  /\ UNCHANGED <<pickedDelay, localVars>>
  /\ UNCHANGED <<flows, timerQueue, nextTimerId, events, cancelClicks, clearRequests,
                 summary, uiVars, gatewayCalls, received, sentStore>>

\* a caller of the backend calls startSend: the call runs up to its first
\* await
TauriStartSendCall(j, payload) ==
  /\ listeners[j] = NoListener
  /\ listeners' = [listeners EXCEPT ![j] = CalledListener("caller", payload)]
  /\ UNCHANGED <<mockVars, pageVars, worker, gatewayCalls, emitted, channel, received,
                 sentStore>>

\* handleStartSend without its isSending check
TauriHandleStartSendCallWhileSending(j, payload, formReady) ==
  /\ formReady
  /\ Len(payload.recipients) # 0
  /\ listeners[j] = NoListener
  /\ listeners' = [listeners EXCEPT ![j] = CalledListener("app", payload)]
  /\ isSending' = TRUE
  /\ UNCHANGED <<flows, timerQueue, nextTimerId, events, cancelClicks, clearRequests,
                 summary, uiVars, pageVars, worker, gatewayCalls, emitted, channel, received,
                 sentStore>>

\* App.handleStartSend up to the first await of startSend: the checks, then
\* setIsSending(true)
TauriHandleStartSendCall(j, payload, formReady) ==
  /\ ~isSending
  /\ formReady
  /\ Len(payload.recipients) # 0
  /\ listeners[j] = NoListener
  /\ listeners' = [listeners EXCEPT ![j] = CalledListener("app", payload)]
  /\ isSending' = TRUE
  /\ UNCHANGED <<flows, timerQueue, nextTimerId, events, cancelClicks, clearRequests,
                 summary, uiVars, pageVars, worker, gatewayCalls, emitted, channel, received,
                 sentStore>>

\* the next await of a startSend call completes: the listener is registered,
\* or start_send is answered; a rejection ends the call in the catch, which
\* App.handleStartSend answers with setIsSending(false)
TauriStartStep(j) ==
  /\ listeners[j].call = "called"
  /\ LET listener == listeners[j]
         app == listener.sink = "app"
     IN IF startSendSteps[listener.pc] = "listen"
          THEN /\ listeners' = [listeners EXCEPT ![j] = Advance(Listen(listener))]
               /\ UNCHANGED <<worker, emitted, channel, isSending, callOutcomes>>
          ELSE /\ InvokeStartSend(j, listener.payload)
               /\ listeners' = [listeners EXCEPT ![j] = IF StartSendRejects
                                                          THEN StartRejected(listener)
                                                          ELSE Advance(listener)]
               /\ isSending' = IF app /\ StartSendRejects THEN FALSE ELSE isSending
               /\ callOutcomes' = callOutcomes \cup
                    { StartOutcome(listener.sink, StartSendRejects, StartSendRejects) }
  /\ UNCHANGED <<flows, timerQueue, nextTimerId, events, cancelClicks, clearRequests,
                 summary, uiVars, pickedDelay, localVars, gatewayCalls, received,
                 sentStore>>

\* the canceller backend.startSend returns in the Tauri runtime: cancel_send
\* is invoked and, once it is acknowledged, the listener disposed; with no
\* job running the invoke may be rejected, which skips the dispose
TauriCanceller(j, acknowledged) ==
  /\ listeners[j].sink = "caller"
  /\ listeners[j].call = "returned"
  /\ worker.state = "running" => acknowledged
  /\ IF acknowledged THEN InvokeCancelSend ELSE UNCHANGED worker
  /\ listeners' = IF acknowledged THEN [listeners EXCEPT ![j] = DisposeAndClear(@)]
                  ELSE listeners
  /\ callOutcomes' = callOutcomes \cup { CancelOutcome("caller", worker.state, ~acknowledged) }
  /\ UNCHANGED <<pickedDelay, localVars>>
  /\ UNCHANGED <<mockVars, gatewayCalls, emitted, channel, received, sentStore>>

\* App.handleCancelSend in the Tauri runtime: backend.cancelSend invokes
\* cancel_send; a rejection is swallowed
TauriHandleCancelSend ==
  /\ isSending
  /\ InvokeCancelSend
  /\ callOutcomes' = callOutcomes \cup { CancelOutcome("app", worker.state, FALSE) }
  /\ UNCHANGED <<pickedDelay, localVars>>
  /\ UNCHANGED <<mockVars, gatewayCalls, emitted, channel, listeners, received, sentStore>>

\* the listener of startSend that stays attached after a terminal event
ListenerKeepsAttached(listener, e) == listener

\* the listener of startSend that unlistens after a terminal event and
\* keeps its dispose variable
ListenerAfterKeepsDispose(listener, e) ==
  IF e.type \in TerminalTypes THEN Dispose(listener) ELSE listener

\* the listener of startSend after it has passed e to onEvent
ListenerAfter(listener, e) ==
  IF e.type \in TerminalTypes THEN DisposeAndClear(listener) ELSE listener

\* the jobs whose listener is attached to 'worker-event'
Attached == { j \in JobIds : listeners[j].attached }

\* the onEvent calls the listeners of the given jobs make for event e
RECURSIVE OnEventCalls(_, _)
OnEventCalls(jobs, e) ==
  IF jobs = {} THEN <<>>
  ELSE LET j == CHOOSE k \in jobs : TRUE
       IN << [sink |-> j, event |-> e] >> \o OnEventCalls(jobs \ {j}, e)

\* the webview delivers the oldest event of the channel to every attached
\* listener, which passes it to onEvent (App.handleEvent for a job of the
\* App); with no listener attached the event is lost
Deliver ==
  /\ channel # <<>>
  /\ channel' = Tail(channel)
  /\ LET e == Head(channel)
         app == \E j \in Attached : listeners[j].sink = "app"
     IN /\ received' = received \o OnEventCalls(Attached, e)
        /\ listeners' = [ j \in JobIds |-> IF j \in Attached THEN ListenerAfter(listeners[j], e)
                                           ELSE listeners[j] ]
        /\ isSending' = IF app THEN handleEvent(isSending, e) ELSE isSending
        /\ summary' = IF app THEN handleEventSummary(summary, e) ELSE summary
  /\ UNCHANGED <<flows, timerQueue, nextTimerId, events, cancelClicks, clearRequests, uiVars,
                 worker, gatewayCalls, emitted, sentStore, pageVars>>

\* no startSend call was made yet
TauriSolo == \A k \in JobIds : listeners[k] = NoListener

\* the steps of the engine's loop
WorkerStep ==
  \/ WorkerStart
  \/ \E failedAttempts \in 0..(MaxRetries + 1), delay \in 0..1 :
       WorkerRecipient(failedAttempts, delay)
  \/ WorkerWaitTick
  \/ WorkerObserveCancel
  \/ WorkerFault

\* The engine alone: one job of a caller of the backend, whose events stay
\* on the channel.
NextEngine ==
  \/ \E j \in JobIds, p \in TauriPayloads : TauriSolo /\ TauriStartSend(j, p)
  \/ WorkerStep
  \/ \E j \in JobIds, acknowledged \in BOOLEAN : TauriCanceller(j, acknowledged)

SpecEngine == InitTauri /\ [][NextEngine]_vars

\* the payloads without retries
SingleAttemptPayloads == { p \in TauriPayloads : p.options.retry_count = 0 }

\* One job of a caller of the backend in the Tauri runtime, with the
\* delivery of its events.
NextTauri ==
  \/ \E j \in JobIds, p \in SingleAttemptPayloads : TauriSolo /\ TauriStartSend(j, p)
  \/ WorkerStep
  \/ Deliver
  \/ \E j \in JobIds, acknowledged \in BOOLEAN : TauriCanceller(j, acknowledged)

SpecTauri == InitTauri /\ [][NextTauri]_vars

\* One job of the App in the Tauri runtime.
NextTauriApp ==
  \/ \E j \in JobIds, p \in SingleAttemptPayloads, ready \in BOOLEAN :
       TauriSolo /\ TauriHandleStartSend(j, p, ready)
  \/ WorkerStep
  \/ Deliver
  \/ TauriHandleCancelSend

SpecTauriApp == InitTauri /\ [][NextTauriApp]_vars

\* the payload of a job with one recipient, no pacing and no retry
StartPayloads ==
  { p \in SingleAttemptPayloads :
      /\ p.recipients = << [email |-> OkEmail, name |-> "A"] >>
      /\ p.options.max_delay_sec = 0
      /\ ~p.options.skip_sent }

\* the job id randomJobId gives the next startSend call
NextJobId == IF TauriSolo THEN "job-1" ELSE "job-2"

\* Two startSend calls in the Tauri runtime, of callers of the backend or of
\* the App, each taken await by await.
NextTauriStart ==
  \/ \E p \in StartPayloads : TauriStartSendCall(NextJobId, p)
  \/ \E p \in StartPayloads, ready \in BOOLEAN : TauriHandleStartSendCall(NextJobId, p, ready)
  \/ \E j \in JobIds : TauriStartStep(j)
  \/ WorkerStart
  \/ \E failedAttempts \in 0..1 : WorkerRecipient(failedAttempts, 0)
  \/ WorkerObserveCancel
  \/ WorkerFault
  \/ Deliver
  \/ \E j \in JobIds, acknowledged \in BOOLEAN : TauriCanceller(j, acknowledged)
  \/ TauriHandleCancelSend

SpecTauriStart == Init /\ [][NextTauriStart]_vars

\* no job has been started yet
Solo == \A k \in JobIds : flows[k] = NoFlow

\* payloads without pacing
UnpacedPayloads ==
  { p \in Payloads : p.options.min_delay_sec = 0 /\ p.options.max_delay_sec = 0 }

\* One job from its start to its end, started by a caller of the backend or
\* by the App.  The jobs of one page are separate closures that share only
\* the timer id source.
Next ==
  \/ \E j \in JobIds, p \in Payloads : Solo /\ StartSend(j, p)
  \/ \E t \in timerQueue : RunNextTimer(t)
  \/ \E t \in timerQueue : WaitTickTimer(t)
  \/ \E j \in JobIds : Cancel(j)
  \/ \E j \in JobIds, p \in Payloads, ready \in BOOLEAN :
       Solo /\ HandleStartSend(j, p, ready)
  \/ HandleCancelSend

Spec == Init /\ [][Next]_vars

\* One job of a caller of the backend, who keeps the canceller.
NextBackend ==
  \/ \E j \in JobIds, p \in Payloads : Solo /\ StartSend(j, p)
  \/ \E t \in timerQueue : RunNextTimer(t)
  \/ \E t \in timerQueue : WaitTickTimer(t)
  \/ \E j \in JobIds : Cancel(j)

SpecBackend == Init /\ [][NextBackend]_vars

\* SpecBackend with every pending timer of the browser firing in the end
SpecFair ==
  /\ SpecBackend
  /\ WF_vars(\E t \in timerQueue : RunNextTimer(t))
  /\ WF_vars(\E t \in timerQueue : WaitTickTimer(t))

\* payloads with any pair of whole delay bounds, negative and swapped ones
\* included, and a recipient more, for jobs with two gaps
SignedDelayValues == (0 - MaxDelay)..MaxDelay

GapPayloads ==
  [ recipients : SeqsUpTo({ [email |-> OkEmail, name |-> "A"] }, MaxRecipients + 1),
    options : [ min_delay_sec : SignedDelayValues, max_delay_sec : SignedDelayValues ] ]

\* lo and hi of the submitted delay bounds
DelayLo(options) == Max(0, Min(options.min_delay_sec, options.max_delay_sec))

DelayHi(options) == Max(0, Max(options.min_delay_sec, options.max_delay_sec))

\* Delay bounds as a number input hands them over, fractions included: the
\* integer n stands for n/2 seconds.
HalfDelayValues == (0 - 2 * MaxDelay)..(2 * MaxDelay)

\* n/2 is a whole number
IsWhole(n) == n % 2 = 0

\* the values Math.floor(Math.random() * (maxDelay - minDelay + 1)) + minDelay
\* can take, in halves: Math.random() is in [0, 1), so the floor takes every
\* whole number below the width (maxDelay - minDelay + 2)/2
pickDelay(minDelay, maxDelay) ==
  IF maxDelay <= minDelay THEN { minDelay }
  ELSE { minDelay + 2 * k : k \in 0..(((maxDelay - minDelay + 2) + 1) \div 2 - 1) }

\* one pickDelay call of a flow created with the given bounds
PickDelayCall(options) ==
  /\ ~pickedDelay.called
  /\ \E d \in pickDelay(DelayLo(options), DelayHi(options)) :
       pickedDelay' = [called |-> TRUE, options |-> options, delaySec |-> d]
  /\ UNCHANGED <<flows, timerQueue, nextTimerId, events, isSending, cancelClicks,
                 clearRequests, summary, uiVars, tauriVars, callOutcomes, localVars>>

\* Either one uncancelled job of a caller of the backend with any whole
\* delay bounds, or pickDelay on its own with any bounds.
NextDelays ==
  \/ \E j \in JobIds, p \in GapPayloads : Solo /\ ~pickedDelay.called /\ StartSend(j, p)
  \/ \E t \in timerQueue : RunNextTimer(t)
  \/ \E t \in timerQueue : WaitTickTimer(t)
  \/ \E options \in [min_delay_sec : HalfDelayValues, max_delay_sec : HalfDelayValues] :
       Solo /\ PickDelayCall(options)

SpecDelays == Init /\ [][NextDelays]_vars

\* One unpaced job of a caller of the backend over recipients with two
\* different failing addresses.
SecondFailEmail == <<"b", "-", "f", "a", "i", "l", "@", "x">>

FailurePool == RecipientPool \cup { [email |-> SecondFailEmail, name |-> "B"] }

FailurePayloads ==
  [ recipients : SeqsUpTo(FailurePool, MaxRecipients),
    options : [ min_delay_sec : {0}, max_delay_sec : {0} ] ]

NextFailures ==
  \/ \E j \in JobIds, p \in FailurePayloads : Solo /\ StartSend(j, p)
  \/ \E t \in timerQueue : RunNextTimer(t)
  \/ \E j \in JobIds : Cancel(j)

SpecFailures == Init /\ [][NextFailures]_vars

\* Jobs started while another job is still running.
NextMulti ==
  \/ \E j \in JobIds, p \in UnpacedPayloads : StartSend(j, p)
  \/ \E t \in timerQueue : RunNextTimer(t)
  \/ \E j \in JobIds : Cancel(j)
  \/ \E j \in JobIds, p \in UnpacedPayloads, ready \in BOOLEAN :
       HandleStartSend(j, p, ready)
  \/ HandleCancelSend

SpecMulti == Init /\ [][NextMulti]_vars

\* One job started from the form of the App in the browser runtime; the
\* pacing of the job is kept within MaxDelay.
NextApp ==
  \/ \E v \in InputNumberValues(0, MaxDelayInput) : SetMinDelaySec(v)
  \/ \E v \in InputNumberValues(0, MaxDelayInput) : SetMaxDelaySec(v)
  \/ \E text \in BodyTexts : SetBodyText(text)
  \/ \E ready \in BOOLEAN : HandleLoadRecipients(ready)
  \/ \E j \in JobIds, ready \in BOOLEAN :
       /\ Solo
       /\ minDelaySec <= MaxDelay /\ maxDelaySec <= MaxDelay
       /\ HandleStartSend(j, buildSendPayload, ready)
  \/ \E t \in timerQueue : RunNextTimer(t)
  \/ \E t \in timerQueue : WaitTickTimer(t)
  \/ HandleCancelSend

SpecApp == Init /\ [][NextApp]_vars

\* One job started from the form of the App in the browser runtime with the
\* default pacing, and the controls of the form that stay enabled or are
\* disabled by isSending alone.
NextForm ==
  \/ \E text \in BodyTexts : SetBodyText(text)
  \/ \E ready \in BOOLEAN : HandleLoadRecipients(ready)
  \/ \E checked \in BOOLEAN : SetSkipSent(checked)
  \/ HandleResetDraft
  \/ HandleClearSentRecords
  \/ \E j \in JobIds, ready \in BOOLEAN : Solo /\ HandleStartSend(j, buildSendPayload, ready)
  \/ \E t \in timerQueue : RunNextTimer(t)
  \/ \E t \in timerQueue : WaitTickTimer(t)
  \/ HandleCancelSend

SpecForm == Init /\ [][NextForm]_vars

\* Jobs started one after the other from the form of the App in the browser
\* runtime, kept without pacing.
NextRerun ==
  \/ \E v \in InputNumberValues(0, 0) : SetMinDelaySec(v)
  \/ \E v \in InputNumberValues(0, 0) : SetMaxDelaySec(v)
  \/ \E ready \in BOOLEAN : HandleLoadRecipients(ready)
  \/ \E checked \in BOOLEAN : SetSkipSent(checked)
  \/ HandleClearSentRecords
  \/ \E j \in JobIds, ready \in BOOLEAN :
       /\ minDelaySec = 0 /\ maxDelaySec = 0
       /\ HandleStartSend(j, buildSendPayload, ready)
  \/ \E t \in timerQueue : RunNextTimer(t)
  \/ HandleCancelSend

SpecRerun == Init /\ [][NextRerun]_vars

\* ------------------------------------------------------------------ reading the event log
\* the events of job j, in delivery order
JobLog(j) == SelectSeq(events, LAMBDA e : e.job_id = j)

Created == { j \in JobIds : flows[j].created }

HasTerminal(j) == \E i \in 1..Len(JobLog(j)) : JobLog(j)[i].type \in TerminalTypes
HasEvent(j, type) == \E i \in 1..Len(JobLog(j)) : JobLog(j)[i].type = type

OutcomeTypes == {"recipient_sent", "recipient_failed", "recipient_skipped"}

\* number of events of the given type among the first n events of log
CountBefore(log, n, type) == Cardinality({ k \in 1..n : log[k].type = type })

Sum(f) == f.success + f.failed

\* ------------------------------------------------------------------ C1
\* C1: every job_finished event carries success + failed + skipped = total,
\* every job_cancelled event carries success + failed + skipped <= total, and
\* total is the number of recipients of the job.
C1_TerminalCounts ==
  \A i \in 1..Len(events) :
    LET e == events[i] IN
      /\ e.type = "job_finished" =>
           /\ e.success + e.failed + e.skipped = e.total
           /\ e.total = Len(flows[e.job_id].recipients)
      /\ e.type = "job_cancelled" =>
           /\ e.success + e.failed + e.skipped <= e.total
           /\ e.total = Len(flows[e.job_id].recipients)

\* a job cancelled after some but not all recipients, one of them failed
C1_Witness ==
  \E i \in 1..Len(events) :
    /\ events[i].type = "job_cancelled"
    /\ events[i].failed > 0
    /\ events[i].success + events[i].failed < events[i].total

\* ------------------------------------------------------------------ C2
\* C2: the log of a job holds at most one terminal event and nothing after it.
C2_OneTerminalEventLast ==
  \A j \in JobIds :
    \A i \in 1..Len(JobLog(j)) :
      JobLog(j)[i].type \in TerminalTypes => i = Len(JobLog(j))

\* ------------------------------------------------------------------ C3
\* C3: once the App has passed a cancel request to backend.cancelSend, the
\* loop starts no further recipient.
C3_CancelRequestStopsLoop ==
  [][cancelClicks > 0 =>
       \A i \in (Len(events) + 1)..Len(events') : events'[i].type # "recipient_started"]_vars

\* ------------------------------------------------------------------ C4
\* C4: a job_cancelled that directly follows an inter_send_wait tick is
\* followed by no recipient_started, recipient_sent, recipient_failed,
\* inter_send_wait or job_finished, and its counts are the outcomes of the
\* recipients processed before the wait.
C4_CancelDuringWait ==
  \A j \in JobIds :
    LET log == JobLog(j) IN
      \A i \in 2..Len(log) :
        (log[i].type = "job_cancelled" /\ log[i - 1].type = "inter_send_wait") =>
          /\ \A k \in (i + 1)..Len(log) :
               log[k].type \notin {"recipient_started", "recipient_sent", "recipient_failed",
                                   "inter_send_wait", "job_finished"}
          /\ log[i].success = CountBefore(log, i, "recipient_sent")
          /\ log[i].failed = CountBefore(log, i, "recipient_failed")
          /\ log[i].skipped = 0
          /\ log[i].success + log[i].failed = log[i - 1].index
          /\ \A t \in timerQueue : t.job # j

\* cancelled in a wait, after the timer of the wait would have fired
C4_Witness ==
  \E j \in JobIds :
    LET log == JobLog(j) IN
      \E i \in 2..Len(log) :
        /\ log[i].type = "job_cancelled"
        /\ log[i - 1].type = "inter_send_wait"
        /\ log[i - 1].remaining_sec < log[i - 1].delay_sec
        /\ flows[j].cancelled

\* ------------------------------------------------------------------ C5
\* C5: invoking the canceller of a job that already has its terminal event
\* changes nothing.
C5_CancelAfterTerminalIsNoOp ==
  [][\A j \in JobIds : (HasTerminal(j) /\ Cancel(j)) => UNCHANGED vars]_vars

\* ------------------------------------------------------------------ C6
\* C6: at most one job is started and not yet at its terminal event.
C6_SingleActiveJob ==
  Cardinality({ j \in Created : ~HasTerminal(j) }) <= 1

\* ------------------------------------------------------------------ C7
\* the events of the given types in log, in order
OfTypes(log, types) == SelectSeq(log, LAMBDA e : e.type \in types)

\* C7: the recipient_started events of a job carry the indexes 1..k in
\* order, and so do its outcome events, k being the number of recipients
\* processed; the event of index i is about the i-th recipient; k is the
\* number of recipients once job_finished was emitted.
C7_IndexesAreOneToK ==
  \A j \in Created :
    LET started == OfTypes(JobLog(j), {"recipient_started"})
        outcomes == OfTypes(JobLog(j), OutcomeTypes)
        k == flows[j].cursor
    IN /\ Len(started) = k
       /\ Len(outcomes) = k
       /\ k <= Len(flows[j].recipients)
       /\ \A i \in 1..k :
            /\ started[i].index = i
            /\ outcomes[i].index = i
            /\ started[i].email = flows[j].recipients[i].email
            /\ outcomes[i].email = flows[j].recipients[i].email
       /\ HasEvent(j, "job_finished") => k = Len(flows[j].recipients)

\* a finished job of at least two recipients
C7_Witness ==
  \E j \in Created :
    /\ HasEvent(j, "job_finished")
    /\ Len(flows[j].recipients) >= 2
    /\ Len(OfTypes(JobLog(j), {"recipient_started"})) >= 2

\* ------------------------------------------------------------------ C8
\* C8: in the log of a job every recipient_started is directly followed by
\* an outcome event of the same index and email, and every outcome event
\* directly follows the recipient_started of its index.
C8_StartedThenOneOutcome ==
  \A j \in JobIds :
    LET log == JobLog(j) IN
      \A i \in 1..Len(log) :
        /\ log[i].type = "recipient_started" =>
             /\ i < Len(log)
             /\ log[i + 1].type \in OutcomeTypes
             /\ log[i + 1].index = log[i].index
             /\ log[i + 1].email = log[i].email
        /\ log[i].type \in OutcomeTypes =>
             /\ i > 1
             /\ log[i - 1].type = "recipient_started"
             /\ log[i - 1].index = log[i].index

\* a failed recipient followed by a sent one
C8_Witness ==
  \E j \in JobIds :
    LET log == JobLog(j) IN
      \E i \in 1..Len(log) :
        /\ log[i].type = "recipient_failed"
        /\ \E k \in (i + 1)..Len(log) : log[k].type = "recipient_sent"

\* ------------------------------------------------------------------ C9
\* C9: the log of a started job begins with job_accepted and then
\* job_started, whose total is the number of recipients, and holds no other
\* job_accepted or job_started.
C9_JobStartedOnceFirst ==
  \A j \in JobIds :
    LET log == JobLog(j) IN
      /\ j \in Created <=> Len(log) > 0
      /\ j \in Created =>
           /\ Len(log) >= 2
           /\ log[1] = JobAccepted(j)
           /\ log[2].type = "job_started"
           /\ log[2].total = Len(flows[j].payload.recipients)
           /\ \A i \in 3..Len(log) : log[i].type \notin {"job_accepted", "job_started"}

\* a job that went on to process a recipient and to wait
C9_Witness ==
  \E j \in Created : HasEvent(j, "recipient_started") /\ HasEvent(j, "inter_send_wait")

\* ------------------------------------------------------------------ C10
\* C10 as stated: the counts never exceed total, and they add up to total
\* exactly when the job has its terminal event.
C10_SumIsTotalIffTerminal ==
  \A j \in Created :
    /\ Sum(flows[j]) <= Len(flows[j].recipients)
    /\ Sum(flows[j]) = Len(flows[j].recipients) <=> HasTerminal(j)

\* C10 amended: the counts never exceed total; they add up to total once
\* job_finished was emitted; and in a job with recipients they add up to
\* total only if job_finished was emitted.
C10_SumIsTotalIffFinished ==
  \A j \in Created :
    /\ Sum(flows[j]) <= Len(flows[j].recipients)
    /\ HasEvent(j, "job_finished") => Sum(flows[j]) = Len(flows[j].recipients)
    /\ (Len(flows[j].recipients) > 0 /\ Sum(flows[j]) = Len(flows[j].recipients))
         => HasEvent(j, "job_finished")

\* a job cancelled between two recipients: terminal, counts below total
C10_Witness ==
  \E j \in Created :
    /\ HasEvent(j, "job_cancelled")
    /\ ~HasEvent(j, "job_finished")
    /\ 0 < Sum(flows[j])
    /\ Sum(flows[j]) < Len(flows[j].recipients)

\* ------------------------------------------------------------------ C11
\* C11: in every step the cursor of a job stays or grows by exactly one, it
\* grows by the number of outcome events the step emits for the job, and it
\* never exceeds the number of recipients.
C11_CursorAdvancesByOne ==
  [][\A j \in JobIds :
       flows[j].created =>
         /\ flows'[j].cursor \in { flows[j].cursor, flows[j].cursor + 1 }
         /\ flows'[j].cursor <= Len(flows'[j].recipients)
         /\ flows'[j].cursor - flows[j].cursor
              = Len(OfTypes(JobLog(j), OutcomeTypes))' - Len(OfTypes(JobLog(j), OutcomeTypes))]_vars

\* the cursor went through every recipient of a job of two or more
C11_Witness ==
  \E j \in Created :
    /\ flows[j].cursor = Len(flows[j].recipients)
    /\ flows[j].cursor >= 2

\* ------------------------------------------------------------------ C12
\* C12: every inter_send_wait event has 0 <= remaining_sec <= delay_sec,
\* delay_sec <= max_delay_sec and delay_sec >= min_delay_sec, the two bounds
\* being the options of the job as submitted.
C12_WaitWithinSubmittedBounds ==
  \A i \in 1..Len(events) :
    LET e == events[i]
        options == flows[e.job_id].payload.options
    IN e.type = "inter_send_wait" =>
         /\ 0 <= e.remaining_sec
         /\ e.remaining_sec <= e.delay_sec
         /\ e.delay_sec <= options.max_delay_sec
         /\ e.delay_sec >= options.min_delay_sec

\* ------------------------------------------------------------------ C13
\* C13: the inter_send_wait events after the outcome of recipient i carry
\* index i, next_index i + 1 and one delay_sec d > 0; the first of them has
\* remaining_sec d, each next one has one less, and the one before the next
\* recipient_started has remaining_sec 1.
C13_WaitCountsDown ==
  \A j \in JobIds :
    LET log == JobLog(j) IN
      \A p \in 1..Len(log) :
        log[p].type = "inter_send_wait" =>
          /\ p > 1
          /\ log[p].delay_sec > 0
          /\ log[p].remaining_sec >= 1
          /\ log[p].next_index = log[p].index + 1
          /\ \/ /\ log[p - 1].type \in OutcomeTypes
                /\ log[p - 1].index = log[p].index
                /\ log[p].remaining_sec = log[p].delay_sec
             \/ /\ log[p - 1].type = "inter_send_wait"
                /\ log[p - 1].index = log[p].index
                /\ log[p - 1].delay_sec = log[p].delay_sec
                /\ log[p].remaining_sec = log[p - 1].remaining_sec - 1
          /\ p < Len(log) =>
               /\ log[p + 1].type \in {"inter_send_wait", "recipient_started", "job_cancelled"}
               /\ log[p + 1].type = "recipient_started" =>
                    /\ log[p].remaining_sec = 1
                    /\ log[p + 1].index = log[p].next_index

\* a wait of two or more seconds that ran down to the next recipient
C13_Witness ==
  \E j \in JobIds :
    LET log == JobLog(j) IN
      \E p \in 2..(Len(log) - 1) :
        /\ log[p].type = "inter_send_wait"
        /\ log[p].delay_sec >= 2
        /\ log[p].remaining_sec = 1
        /\ log[p - 1].type = "inter_send_wait"
        /\ log[p + 1].type = "recipient_started"

\* ------------------------------------------------------------------ C14
\* the timers of job j that are still to fire
PendingTimers(j) == { t \in timerQueue : t.job = j }

\* C14: a delay of 0 produces no inter_send_wait: no wait event carries a
\* delay of 0, a job whose delay can only be 0 has no wait event at all, a
\* job whose last event is an outcome waits on runNext alone, and the event
\* that follows that outcome is the next recipient_started or job_cancelled.
C14_ZeroDelayNoWait ==
  [][\A j \in JobIds :
       LET log == JobLog(j)
           n == Len(log)
       IN /\ \A p \in 1..n : log[p].type = "inter_send_wait" =>
                 /\ log[p].delay_sec > 0
                 /\ PickDelay(flows[j]) # {0}
          /\ (n > 0 /\ log[n].type \in OutcomeTypes) =>
                 /\ flows[j].delaySec = 0
                 /\ \A t \in PendingTimers(j) : t.callback = "runNext"
                 /\ Len(JobLog(j)') > n =>
                      \/ JobLog(j)'[n + 1].type = "job_cancelled"
                      \/ /\ JobLog(j)'[n + 1].type = "recipient_started"
                         /\ JobLog(j)'[n + 1].index = log[n].index + 1]_vars

\* a job that could have waited chose 0 and went on to the next recipient
C14_Witness ==
  \E j \in Created :
    LET log == JobLog(j) IN
      /\ flows[j].maxDelay > 0
      /\ \E p \in 1..(Len(log) - 1) :
           /\ log[p].type \in OutcomeTypes
           /\ log[p + 1].type = "recipient_started"

\* ------------------------------------------------------------------ C15
\* C15: the outcome event of the last recipient is directly followed by
\* job_finished, and from that outcome on the job has no timer to fire.
C15_NoWaitAfterLast ==
  \A j \in Created :
    LET log == JobLog(j)
        total == Len(flows[j].recipients)
    IN \A p \in 1..Len(log) :
         (log[p].type \in OutcomeTypes /\ log[p].index = total) =>
           /\ p < Len(log)
           /\ log[p + 1].type = "job_finished"
           /\ PendingTimers(j) = {}

\* a paced job of two recipients that ran to its end
C15_Witness ==
  \E j \in Created :
    /\ Len(flows[j].recipients) >= 2
    /\ flows[j].minDelay > 0
    /\ ~flows[j].cancelled
    /\ HasEvent(j, "inter_send_wait")
    /\ HasEvent(j, "job_finished")

\* ------------------------------------------------------------------ C16
\* C16: a job_cancelled with no recipient_started before it reports
\* success = failed = skipped = 0 and the number of recipients as total, and
\* the job never emits a recipient_started.
C16_CancelBeforeFirstRecipient ==
  \A j \in Created :
    LET log == JobLog(j) IN
      \A p \in 1..Len(log) :
        (log[p].type = "job_cancelled" /\ CountBefore(log, p, "recipient_started") = 0) =>
          /\ log[p].success = 0
          /\ log[p].failed = 0
          /\ log[p].skipped = 0
          /\ log[p].total = Len(flows[j].payload.recipients)
          /\ ~HasEvent(j, "recipient_started")
          /\ PendingTimers(j) = {}

\* a job with recipients, cancelled before its first timer fired
C16_Witness ==
  \E j \in Created :
    /\ Len(flows[j].recipients) >= 1
    /\ Len(JobLog(j)) = 3
    /\ JobLog(j)[3].type = "job_cancelled"

\* ------------------------------------------------------------------ C17
\* the events of the given type in the log of job j
CountOf(j, type) == CountBefore(JobLog(j), Len(JobLog(j)), type)

\* C17: a failed recipient does not end the job: no error event is emitted,
\* after the recipient_failed of a recipient that is not the last the job
\* goes on (it has started the next recipient or has a timer pending) unless
\* it was cancelled, job_finished counts the recipient_sent and
\* recipient_failed events, and a job that is not cancelled reaches
\* job_finished.
C17_FailureDoesNotAbort ==
  /\ [](\A j \in Created :
          LET log == JobLog(j) IN
            /\ ~HasEvent(j, "error")
            /\ \A p \in 1..Len(log) :
                 /\ (log[p].type = "recipient_failed"
                       /\ log[p].index < Len(flows[j].recipients)
                       /\ ~flows[j].cancelled) =>
                      \/ PendingTimers(j) # {}
                      \/ \E q \in (p + 1)..Len(log) :
                           /\ log[q].type = "recipient_started"
                           /\ log[q].index = log[p].index + 1
                 /\ log[p].type = "job_finished" =>
                      /\ log[p].success = CountOf(j, "recipient_sent")
                      /\ log[p].failed = CountOf(j, "recipient_failed")
                      /\ log[p].skipped = 0
                      /\ log[p].total = Len(flows[j].recipients))
  /\ \A j \in JobIds :
       (j \in Created /\ ~flows[j].cancelled)
         ~> (j \in Created /\ (flows[j].cancelled \/ HasEvent(j, "job_finished")))

\* a job finished after the failure of a recipient that was not its last
C17_Witness ==
  \E j \in Created :
    LET log == JobLog(j) IN
      /\ ~flows[j].cancelled
      /\ HasEvent(j, "job_finished")
      /\ \E p \in 1..Len(log) :
           /\ log[p].type = "recipient_failed"
           /\ log[p].index < Len(flows[j].recipients)

\* ------------------------------------------------------------------ C18
\* the failure records of the recipient_failed events of a log, in order
FailureRecords(log) ==
  LET failedEvents == SelectSeq(log, LAMBDA e : e.type = "recipient_failed")
  IN [ k \in 1..Len(failedEvents) |->
         [email |-> failedEvents[k].email, name |-> failedEvents[k].name,
          error |-> failedEvents[k].error] ]

\* C18: the failures of job_finished are the {email, name, error} records of
\* the job's recipient_failed events in emission order: as many as the
\* failed count, and none for a recipient that was sent.
C18_FailuresMatchFailedEvents ==
  \A j \in Created :
    LET log == JobLog(j) IN
      \A p \in 1..Len(log) :
        log[p].type = "job_finished" =>
          /\ log[p].failures = FailureRecords(SubSeq(log, 1, p))
          /\ Len(log[p].failures) = log[p].failed
          /\ \A k \in 1..Len(log[p].failures), q \in 1..p :
               log[q].type = "recipient_sent" => log[q].email # log[p].failures[k].email

\* a finished job with two different failures
C18_Witness ==
  \E j \in Created :
    LET log == JobLog(j) IN
      \E p \in 1..Len(log) :
        /\ log[p].type = "job_finished"
        /\ Len(log[p].failures) = 2
        /\ log[p].failures[1] # log[p].failures[2]

\* ------------------------------------------------------------------ C19
\* C19: a submit with an empty recipient list is rejected: no job with an
\* empty recipient list exists and none has a job_accepted, job_started or
\* job_finished event.
C19_EmptySubmitRejected ==
  \A j \in JobIds :
    /\ flows[j].created => Len(flows[j].payload.recipients) > 0
    /\ \A p \in 1..Len(JobLog(j)) :
         JobLog(j)[p].type \in {"job_accepted", "job_started", "job_finished"} =>
           Len(flows[j].payload.recipients) > 0

\* ------------------------------------------------------------------ C20
\* C20: every job the App has started has a body text with all of
\* {teacher_name}, {sender_name} and {send_date}.
C20_StartNeedsAllTokens ==
  \A j \in Created :
    (flows[j].sink = "app" /\ HasEvent(j, "job_accepted")) =>
      missingTokens(flows[j].payload.template.body_text) = <<>>

\* ------------------------------------------------------------------ C24
\* the jobs that are started and have no terminal event yet
RunningJobs == { j \in Created : ~HasTerminal(j) }

\* C24: backend.clearSentRecords is called only while no job is running.
C24_NoClearWhileRunning ==
  [][clearRequests' # clearRequests => RunningJobs = {}]_vars

\* a job is running and the clear button is held back by isSending alone
C24_Witness ==
  /\ RunningJobs # {}
  /\ isSending
  /\ clearRequests < MaxClears
  /\ ~ENABLED HandleClearSentRecords

\* ------------------------------------------------------------------ C25
\* C25: a job works on the payload handed to startSend: the payload, the
\* recipients and the delay bounds of a started job never change, a change
\* of the form changes nothing of any job, and whatever the form holds by
\* then, the job starts the recipients of its payload in their order, waits
\* within the bounds of its payload and finishes having counted them all.
C25_PayloadIsSnapshot ==
  [][/\ \A j \in Created :
          /\ flows'[j].payload = flows[j].payload
          /\ flows'[j].recipients = flows[j].payload.recipients
          /\ flows'[j].minDelay = flows[j].minDelay
          /\ flows'[j].maxDelay = flows[j].maxDelay
     /\ uiVars' # uiVars =>
          UNCHANGED <<flows, timerQueue, nextTimerId, events, isSending>>
     /\ \A p \in (Len(events) + 1)..Len(events') :
          LET e == events'[p]
              f == flows'[e.job_id]
              options == f.payload.options
          IN /\ e.type = "job_started" => e.total = Len(f.payload.recipients)
             /\ e.type = "recipient_started" =>
                  /\ e.index <= Len(f.payload.recipients)
                  /\ e.email = f.payload.recipients[e.index].email
             /\ e.type = "inter_send_wait" =>
                  /\ e.delay_sec >= Min(options.min_delay_sec, options.max_delay_sec)
                  /\ e.delay_sec <= Max(options.min_delay_sec, options.max_delay_sec)
             /\ e.type = "job_finished" =>
                  /\ e.total = Len(f.payload.recipients)
                  /\ e.success + e.failed = Len(f.payload.recipients)]_vars

\* a job finished after the form had lost the recipients and the body text
\* the job was started with
C25_Witness ==
  \E j \in Created :
    /\ HasEvent(j, "job_finished")
    /\ recipients # flows[j].payload.recipients
    /\ bodyText # flows[j].payload.template.body_text

\* ------------------------------------------------------------------ C21
\* the sent records after the first n events: the normalized emails of the
\* recipient_sent events among them
SentBefore(n) ==
  { Normalized(events[k].email) : k \in { i \in 1..n : events[i].type = "recipient_sent" } }

\* C21: as long as the records were never cleared, in a job with skip_sent
\* every recipient_started for an email sent before it is directly followed
\* by a recipient_skipped with reason "already_sent" of that recipient.
C21_SentBeforeIsSkipped ==
  clearRequests = 0 =>
    \A p \in 1..Len(events) :
      LET e == events[p] IN
        (/\ e.type = "recipient_started"
         /\ flows[e.job_id].sink = "app"
         /\ flows[e.job_id].payload.options.skip_sent
         /\ Normalized(e.email) \in SentBefore(p)
         /\ p < Len(events)) =>
          /\ events[p + 1].type = "recipient_skipped"
          /\ events[p + 1].index = e.index

\* ------------------------------------------------------------------ C22
\* C22: as long as the records were never cleared, a job with skip_sent
\* whose recipients are those of an earlier job that finished with
\* success = total finishes with skipped = total and success = 0.
C22_RerunSkipsAll ==
  clearRequests = 0 =>
    \A p \in 1..Len(events), q \in 1..Len(events) :
      LET first == events[p]
          second == events[q]
      IN (/\ p < q
          /\ first.type = "job_finished" /\ second.type = "job_finished"
          /\ first.job_id # second.job_id
          /\ first.success = first.total
          /\ flows[second.job_id].sink = "app"
          /\ flows[second.job_id].payload.options.skip_sent
          /\ flows[second.job_id].payload.recipients = flows[first.job_id].payload.recipients) =>
           /\ second.skipped = second.total
           /\ second.success = 0

\* ------------------------------------------------------------------ C28
\* C28: the order of a job is the order of the recipients of its payload
\* and stays so: the k-th recipient_started is about the k-th of them, no
\* recipient is started before the outcome of the one before it, and a
\* finished job has started each of them once.
C28_InputOrderOneAtATime ==
  \A j \in Created :
    LET log == JobLog(j)
        starts == OfTypes(log, {"recipient_started"})
        steps == OfTypes(log, {"recipient_started"} \cup OutcomeTypes)
    IN /\ flows[j].recipients = flows[j].payload.recipients
       /\ Len(starts) <= Len(flows[j].recipients)
       /\ \A k \in 1..Len(starts) :
            /\ starts[k].email = flows[j].payload.recipients[k].email
            /\ starts[k].name = flows[j].payload.recipients[k].name
       /\ \A k \in 1..Len(steps) :
            (steps[k].type = "recipient_started") <=> (k % 2 = 1)
       /\ HasEvent(j, "job_finished") => Len(starts) = Len(flows[j].payload.recipients)

\* a finished job of two different recipients
C28_Witness ==
  \E j \in Created :
    /\ HasEvent(j, "job_finished")
    /\ Len(flows[j].recipients) = 2
    /\ flows[j].recipients[1] # flows[j].recipients[2]

\* ------------------------------------------------------------------ C29
\* C29: a job has at most one timer pending, the one whose id the flow
\* holds; every recipient_started of the log has its outcome; a cancelled
\* job has no timer pending; and a job that is neither cancelled nor
\* finished has its one timer.
C29_OneTimerOneRecipient ==
  \A j \in Created :
    /\ Cardinality(PendingTimers(j)) <= 1
    /\ \A t \in PendingTimers(j) : t.id = flows[j].timer
    /\ CountOf(j, "recipient_started")
         = CountOf(j, "recipient_sent") + CountOf(j, "recipient_failed")
    /\ flows[j].cancelled => PendingTimers(j) = {}
    /\ (~flows[j].cancelled /\ ~HasEvent(j, "job_finished")) =>
         Cardinality(PendingTimers(j)) = 1

\* a job cancelled in a wait, after timers of runNext and of waitTick fired
C29_Witness ==
  \E j \in Created :
    /\ flows[j].cancelled
    /\ flows[j].timer = 0
    /\ HasEvent(j, "inter_send_wait")
    /\ ~HasEvent(j, "job_finished")
    /\ PendingTimers(j) = {}

\* ------------------------------------------------------------------ C23
\* the events and the gateway calls a step adds
NewEvents == SubSeq(emitted', Len(emitted) + 1, Len(emitted'))

NewCalls == SubSeq(gatewayCalls', Len(gatewayCalls) + 1, Len(gatewayCalls'))

\* the gateway calls made for a recipient of a job
AttemptsOf(j, index) ==
  SelectSeq(gatewayCalls, LAMBDA call : call.job_id = j /\ call.index = index)

\* C23: a recipient that is not skipped gets between 1 and 1 + retry_count
\* delivery attempts; recipient_sent follows the first attempt that succeeds,
\* recipient_failed follows only 1 + retry_count failed attempts and carries
\* the error of the last one; a skipped recipient gets no attempt.
C23_RetryBounds ==
  [][ /\ NewCalls # <<>> =>
           \E k \in 1..Len(NewEvents) : NewEvents[k].type \in {"recipient_sent", "recipient_failed"}
      /\ \A k \in 1..Len(NewEvents) :
           LET e == NewEvents[k]
               calls == NewCalls
               budget == 1 + worker.payload.options.retry_count
           IN /\ e.type \in {"recipient_sent", "recipient_failed"} =>
                   /\ Len(calls) >= 1
                   /\ Len(calls) <= budget
                   /\ \A c \in 1..Len(calls) :
                        calls[c].job_id = e.job_id /\ calls[c].index = e.index
              /\ e.type = "recipient_sent" =>
                   /\ calls[Len(calls)].error = <<>>
                   /\ \A c \in 1..(Len(calls) - 1) : calls[c].error # <<>>
              /\ e.type = "recipient_failed" =>
                   /\ Len(calls) = budget
                   /\ \A c \in 1..Len(calls) : calls[c].error # <<>>
                   /\ e.error = calls[Len(calls)].error
              /\ e.type = "recipient_skipped" => calls = <<>>
    ]_vars

\* a recipient was sent on a retry and another failed after a retry
C23_Witness ==
  \E a, b \in 1..Len(emitted) :
    /\ emitted[a].type = "recipient_sent"
    /\ Len(AttemptsOf(emitted[a].job_id, emitted[a].index)) = 2
    /\ emitted[b].type = "recipient_failed"
    /\ Len(AttemptsOf(emitted[b].job_id, emitted[b].index)) = 2
    /\ emitted[b].error = AttemptError(2)

\* ------------------------------------------------------------------ C26
\* the ten event kinds of the event model
EventKinds ==
  {"job_accepted", "job_started", "recipient_started", "recipient_sent", "recipient_failed",
   "recipient_skipped", "inter_send_wait", "job_finished", "job_cancelled", "error"}

\* C26: every event delivered to the sink of a job has one of the ten kinds
\* and carries the job_id of that job.
C26_TenKindsWithJobId ==
  \A k \in 1..Len(received) :
    /\ received[k].event.type \in EventKinds
    /\ "job_id" \in DOMAIN received[k].event
    /\ received[k].event.job_id = received[k].sink

\* ------------------------------------------------------------------ C27
\* the events onEvent was called with, in the order of the calls
Delivered == [ k \in 1..Len(received) |-> received[k].event ]

\* C27: the sink neither drops nor reorders the events of an accepted job:
\* what the worker emitted from job_accepted on, the job_cancelled that
\* answers a cancel included, is what onEvent received, in emission order,
\* followed by what is still on the channel, whenever the cancel call
\* completes.
C27_NoDropNoReorder ==
  (emitted # <<>> /\ emitted[1].type = "job_accepted") => Delivered \o channel = emitted

\* ------------------------------------------------------------------ C30
\* onEvent is called with an error event in this step
ErrorDelivered ==
  /\ Len(received') = Len(received) + 1
  /\ received'[Len(received')].event.type = "error"

\* C30: an error event is terminal: the step that delivers it detaches the
\* listener of the job, leaves the sending state and keeps the tallies
\* counted before the error.
C30_ErrorIsTerminal ==
  [][ ErrorDelivered =>
        /\ ~listeners'[received'[Len(received')].sink].attached
        /\ Attached' = {}
        /\ ~isSending'
        /\ summary' = summary
    ]_vars

\* an error was delivered to the App after a recipient was counted as sent
C30_Witness ==
  /\ received # <<>>
  /\ received[Len(received)].event.type = "error"
  /\ listeners[received[Len(received)].sink].sink = "app"
  /\ summary.success >= 1
  /\ summary.total = 2
  /\ ~isSending

\* ------------------------------------------------------------------ C31
\* the cancel calls this step made while the engine had no job running
IdleCancels ==
  { o \in callOutcomes' \ callOutcomes : o.call = "cancel_send" /\ o.engine = "idle" }

\* C31: a cancel requested while no job is running changes nothing of the
\* job state and is reported to the caller.
C31_IdleCancelReported ==
  [][ \A o \in IdleCancels :
        /\ o.told
        /\ worker' = worker
        /\ emitted' = emitted
    ]_vars

\* ------------------------------------------------------------------ C32
\* the job has emitted job_finished or job_cancelled
Ended(j) == HasEvent(j, "job_finished") \/ HasEvent(j, "job_cancelled")

\* C32: every job of createMockSendingFlow terminates: a job that has not
\* ended has a timer pending, a job whose canceller ran has emitted
\* job_cancelled, a job that ended without its canceller emitted
\* job_finished, and with every pending timer firing in the end a started
\* job ends.
C32_MockJobTerminates ==
  /\ [](\A j \in Created :
          /\ ~Ended(j) => PendingTimers(j) # {}
          /\ flows[j].cancelled => HasEvent(j, "job_cancelled")
          /\ (Ended(j) /\ ~flows[j].cancelled) => HasEvent(j, "job_finished"))
  /\ \A j \in JobIds : (j \in Created) ~> (j \in Created /\ Ended(j))

\* a job with a pacing delay finished all its recipients without a cancel
C32_Witness ==
  \E j \in Created :
    /\ ~flows[j].cancelled
    /\ HasEvent(j, "job_finished")
    /\ HasEvent(j, "inter_send_wait")
    /\ Len(flows[j].recipients) = MaxRecipients
    /\ PendingTimers(j) = {}

\* ------------------------------------------------------------------ C33
\* the delays announced by the inter_send_wait events of job j, by gap
WaitDelays(j) ==
  { << JobLog(j)[k].index, JobLog(j)[k].delay_sec >> :
      k \in { i \in 1..Len(JobLog(j)) : JobLog(j)[i].type = "inter_send_wait" } }

\* C33: the delay pickDelay returns is an integer in [lo, hi], so never
\* negative, for any pair of submitted bounds, swapped, negative or
\* fractional; every gap of a job has a delay of its own within these
\* bounds.
C33_DelayWithinBounds ==
  /\ \A j \in Created :
       LET options == flows[j].payload.options
           lo == DelayLo(options)
           hi == DelayHi(options)
       IN /\ \A d \in PickDelay(flows[j]) : d >= 0 /\ lo <= d /\ d <= hi
          /\ flows[j].delaySec >= 0 /\ flows[j].delaySec <= hi
          /\ \A w \in WaitDelays(j) : w[2] >= 1 /\ lo <= w[2] /\ w[2] <= hi
  /\ pickedDelay.called =>
       /\ IsWhole(pickedDelay.delaySec)
       /\ pickedDelay.delaySec >= 0
       /\ DelayLo(pickedDelay.options) <= pickedDelay.delaySec
       /\ pickedDelay.delaySec <= DelayHi(pickedDelay.options)

\* ------------------------------------------------------------------ C34
\* App state summary before any event
InitialSummary == [total |-> 0, success |-> 0, failed |-> 0, skipped |-> 0]

\* the summary after handleEvent has handled the first n events of log
SummaryAfter(log, n) == handleEventsSummary(InitialSummary, SubSeq(log, 1, n))

\* C34: the tally of App.handleEvent refines the counts of the job: after
\* every prefix of the job's events from job_started on, success, failed and
\* skipped are the numbers of recipient_sent, recipient_failed and
\* recipient_skipped events handled, their sum is at most total, and the
\* counts job_finished or job_cancelled carries are that tally.
C34_TallyRefinesCounts ==
  \A j \in Created :
    flows[j].sink = "app" =>
      LET log == JobLog(j) IN
        /\ summary = SummaryAfter(log, Len(log))
        /\ \A n \in 2..Len(log) :
             LET s == SummaryAfter(log, n) IN
               /\ s.success = CountBefore(log, n, "recipient_sent")
               /\ s.failed = CountBefore(log, n, "recipient_failed")
               /\ s.skipped = CountBefore(log, n, "recipient_skipped")
               /\ s.success + s.failed + s.skipped <= s.total
               /\ s.total = Len(flows[j].recipients)

\* the App handled the job_finished of a job with a sent and a failed
\* recipient
C34_Witness ==
  \E j \in Created :
    /\ flows[j].sink = "app"
    /\ HasEvent(j, "job_finished")
    /\ summary.success >= 1
    /\ summary.failed >= 1
    /\ summary.success + summary.failed = summary.total

\* ------------------------------------------------------------------ C35
\* the startSend calls whose start_send is rejected in this step
RejectedStarts ==
  { j \in JobIds : listeners[j].call = "called" /\ listeners'[j].call = "threw" }

\* the onEvent calls of this step
NewOnEventCalls == SubSeq(received', Len(received) + 1, Len(received'))

\* C35: a failed start leaves no active job behind: when start_send rejects,
\* startSend has removed its listener, the caller gets the error, the App
\* is out of the sending state and the engine is as it was; no later event
\* of the channel reaches the onEvent of the failed call.
C35_FailedStartCleansUp ==
  [][ /\ \A j \in RejectedStarts :
           /\ ~listeners'[j].attached
           /\ listeners'[j].dispose = "null"
           /\ StartOutcome(listeners[j].sink, TRUE, TRUE) \in callOutcomes'
           /\ listeners[j].sink = "app" => ~isSending'
           /\ worker' = worker
      /\ \A k \in 1..Len(NewOnEventCalls) :
           listeners[NewOnEventCalls[k].sink].call # "threw"
    ]_vars

\* the App's start was rejected while the job of a caller was running, and
\* that job went on to its job_finished
C35_Witness ==
  /\ listeners["job-2"].call = "threw"
  /\ listeners["job-2"].sink = "app"
  /\ listeners["job-2"].disposals = 1
  /\ ~isSending
  /\ \E k \in 1..Len(received) :
       received[k].sink = "job-1" /\ received[k].event.type = "job_finished"

\* ------------------------------------------------------------------ C36
\* the events the onEvent of job j was called with, in order
ReceivedBy(j) ==
  LET calls == SelectSeq(received, LAMBDA c : c.sink = j)
  IN [ k \in 1..Len(calls) |-> calls[k].event ]

\* C36: once the listener of a startSend call has passed a job_finished,
\* job_cancelled or error event to onEvent it is disposed and calls onEvent
\* no more, whatever the channel carries later; unlisten is called at most
\* once, the canceller notwithstanding.
C36_DisposedAfterTerminal ==
  \A j \in JobIds :
    LET log == ReceivedBy(j) IN
      /\ listeners[j].disposals <= 1
      /\ \A k \in 1..(Len(log) - 1) : log[k].type \notin TerminalTypes
      /\ (log # <<>> /\ log[Len(log)].type \in TerminalTypes) =>
           /\ ~listeners[j].attached
           /\ listeners[j].dispose = "null"
           /\ listeners[j].disposals = 1

\* the listener of the first call passed on its job_finished, its canceller
\* was called afterwards, and the events of the App's later job passed it by
C36_Witness ==
  /\ ReceivedBy("job-1") # <<>>
  /\ ReceivedBy("job-1")[Len(ReceivedBy("job-1"))].type = "job_finished"
  /\ CancelOutcome("caller", "idle", FALSE) \in callOutcomes
  /\ listeners["job-1"].disposals = 1
  /\ listeners["job-2"].sink = "app"
  /\ \E k \in 1..Len(ReceivedBy("job-2")) : ReceivedBy("job-2")[k].type = "job_finished"
  /\ channel = <<>>

\* ------------------------------------------------------------------ C37
\* the events of seq that carry the job_id j
EventsOf(j, seq) == SelectSeq(seq, LAMBDA e : "job_id" \in DOMAIN e /\ e.job_id = j)

\* the listener of job j was registered at some time
WasRegistered(j) == listeners[j].dispose = "unlisten" \/ listeners[j].disposals >= 1

\* C37: the listener is registered before start_send is invoked: the engine
\* holds no job and has emitted no event of a job whose listener was never
\* registered, and as long as the listener has not been disposed every event
\* of its job is with onEvent or still on the channel, in emission order.
C37_ListenBeforeStart ==
  \A j \in JobIds :
    /\ (worker.state = "running" /\ worker.job_id = j) => WasRegistered(j)
    /\ EventsOf(j, emitted) # <<>> => WasRegistered(j)
    /\ listeners[j].disposals = 0 =>
         EventsOf(j, ReceivedBy(j)) \o EventsOf(j, channel) = EventsOf(j, emitted)

\* the first events of a job have reached onEvent, the next are on the
\* channel and the listener is registered
C37_Witness ==
  \E j \in JobIds :
    /\ listeners[j].attached
    /\ listeners[j].disposals = 0
    /\ \E k \in 1..Len(ReceivedBy(j)) : ReceivedBy(j)[k].type = "job_accepted"
    /\ \E k \in 1..Len(ReceivedBy(j)) : ReceivedBy(j)[k].type = "recipient_sent"
    /\ channel # <<>>
    /\ Head(channel).type = "job_finished"

\* ------------------------------------------------------------------ C38
\* the startSend calls App.handleStartSend makes in this step
AppStarts ==
  { j \in JobIds : listeners[j].call = "none" /\ listeners'[j].call = "called"
                     /\ listeners'[j].sink = "app" }

\* the jobs of the App
AppJobs == { j \in JobIds : listeners[j].sink = "app" }

\* only the App uses the backend
AppOnly == \A j \in JobIds : listeners[j].sink \in {"none", "app"}

\* C38: isSending tracks the job of the App: it is true while the listener
\* of a job of the App is registered, and, when only the App uses the
\* backend, while its startSend call is under way, the engine runs a job
\* or events are on the channel; it becomes true only in a handleStartSend
\* that passed its checks, which happens only while it is false, and false
\* only when handleEvent handles job_finished, job_cancelled or error or
\* when the start failed.
C38_IsSendingTracksJob ==
  /\ [](\A j \in AppJobs :
          /\ listeners[j].attached => isSending
          /\ AppOnly => ((\/ listeners[j].call = "called"
                          \/ worker.state = "running"
                          \/ channel # <<>>) => isSending))
  /\ [][ /\ (~isSending /\ isSending') => AppStarts # {}
         /\ AppStarts # {} => (~isSending /\ isSending' /\ Cardinality(AppStarts) = 1)
         /\ (isSending /\ ~isSending') =>
              \/ \E k \in 1..Len(NewOnEventCalls) :
                   /\ NewOnEventCalls[k].sink \in AppJobs
                   /\ NewOnEventCalls[k].event.type \in TerminalTypes
              \/ RejectedStarts \cap AppJobs # {}
    ]_vars

\* the App started a second job after it had handled the job_finished of
\* its first
C38_Witness ==
  /\ listeners["job-1"].sink = "app"
  /\ listeners["job-2"].sink = "app"
  /\ listeners["job-2"].attached
  /\ isSending
  /\ \E k \in 1..Len(ReceivedBy("job-1")) : ReceivedBy("job-1")[k].type = "job_finished"
  /\ ReceivedBy("job-2") # <<>>

\* ------------------------------------------------------------------ SMTP test
MaxTests == 2

MaxTicks == 2

\* everything but the SMTP test and the draft
jobVars == <<flows, timerQueue, nextTimerId, events, isSending, cancelClicks, clearRequests,
             summary, uiVars, tauriVars, callOutcomes, pickedDelay>>

\* String.prototype.trim on a sequence of characters
RECURSIVE TrimStart(_)
TrimStart(s) == IF s # <<>> /\ Head(s) = " " THEN TrimStart(Tail(s)) ELSE s

RECURSIVE TrimEnd(_)
TrimEnd(s) ==
  IF s # <<>> /\ s[Len(s)] = " " THEN TrimEnd(SubSeq(s, 1, Len(s) - 1)) ELSE s

Trim(s) == TrimEnd(TrimStart(s))

\* App: effectiveSmtpUsername
effectiveSmtpUsername == Trim(smtpTest.senderEmail)

\* App.validateSmtpForTest: TRUE when it returns a message
validateSmtpForTest ==
  \/ Trim(smtpTest.smtpHost) = <<>>
  \/ smtpTest.smtpPort <= 0
  \/ effectiveSmtpUsername = <<>>
  \/ smtpTest.smtpPassword = <<>>

\* what the user can type into the SMTP fields
SmtpTexts == { <<>>, <<" ">>, <<"h">> }

SmtpPorts == { 0, DEFAULT_SMTP_PORT }

\* the draft fields as the given form holds them
DraftOf(form) ==
  [senderEmail |-> form.senderEmail, smtpHost |-> form.smtpHost, smtpPort |-> form.smtpPort]

\* the dependencies of the effect that saves the draft
DraftDeps(form, hydrated) == [fields |-> DraftOf(form), draftHydrated |-> hydrated]

\* the effect that saves the draft, without its draftHydrated check
DraftEffectUnguarded(d, form, hydrated) ==
  IF d.effectDeps = << DraftDeps(form, hydrated) >>
    THEN d
    ELSE [d EXCEPT !.effectDeps = << DraftDeps(form, hydrated) >>,
                   !.stored = << DraftOf(form) >>]

\* AppContent is rendered with the given form and draftHydrated and its
\* effects run: the effect that saves the draft runs when a dependency
\* changed since it last ran, returns when draftHydrated is false and calls
\* saveDraft otherwise
DraftEffect(d, form, hydrated) ==
  IF d.effectDeps = << DraftDeps(form, hydrated) >>
    THEN d
    ELSE [d EXCEPT !.effectDeps = << DraftDeps(form, hydrated) >>,
                   !.stored = IF hydrated THEN << DraftOf(form) >> ELSE @]

\* the effects of the first render: loadDraft and the setters of the fields
\* the stored draft holds, setDraftHydrated(true); then the effect that
\* saves the draft, which still sees draftHydrated = false
MountEffects ==
  /\ draft.phase = "rendered"
  /\ LET loaded == draft.stored
         form == IF loaded = <<>> THEN smtpTest
                 ELSE [smtpTest EXCEPT !.senderEmail = loaded[1].senderEmail,
                                       !.smtpHost = loaded[1].smtpHost,
                                       !.smtpPort = loaded[1].smtpPort]
     IN /\ draft' = [DraftEffect(draft, smtpTest, FALSE) EXCEPT
                       !.draftHydrated = TRUE, !.phase = "hydrating"]
        /\ smtpTest' = form
  /\ UNCHANGED jobVars

\* the render the setters of the first effects asked for, and its effects
HydratedRender ==
  /\ draft.phase = "hydrating"
  /\ draft' = [DraftEffect(draft, smtpTest, draft.draftHydrated) EXCEPT !.phase = "idle"]
  /\ UNCHANGED <<jobVars, smtpTest>>

\* the page is mounted and its first effects are done
Mounted == draft.phase = "idle"

\* the user edits one field of the SMTP form; the render that follows
\* saves the draft when a field of the draft changed
SetSmtpField ==
  /\ Mounted
  /\ \E field \in {"senderEmail", "smtpHost", "smtpPassword", "smtpPort"} :
       \E value \in (IF field = "smtpPort" THEN SmtpPorts ELSE SmtpTexts) :
         /\ smtpTest[field] # value
         /\ smtpTest' = [smtpTest EXCEPT ![field] = value]
  /\ draft' = DraftEffect(draft, smtpTest', draft.draftHydrated)
  /\ UNCHANGED jobVars

\* backend.testSmtp: how the call can end in the given runtime, "resolved"
\* or "threw"
testSmtp(tauri, payload) ==
  IF ~tauri
    THEN IF payload.username = <<>> \/ payload.password = <<>> \/ payload.host = <<>>
           THEN { "threw" }
           ELSE { "resolved" }
    ELSE { IF type = "smtp_test_succeeded" THEN "resolved" ELSE "threw" :
             type \in {"smtp_test_succeeded", "error", "recipients_loaded", "rejected"} }

\* window.clearInterval(smtpTestTickerRef.current); smtpTestTickerRef.current = null
ClearTicker(t) ==
  IF t.smtpTestTickerRef # 0
    THEN [t EXCEPT !.intervals = @ \ {t.smtpTestTickerRef}, !.smtpTestTickerRef = 0]
    ELSE t

\* App.handleTestSmtp up to its await: nothing while a test is in
\* progress; a validation message goes to state error; otherwise the test
\* enters testing, starts the interval timer and calls testSmtp
HandleTestSmtp(tauri) ==
  /\ Mounted
  /\ ~smtpTest.isTestingSmtp
  /\ IF validateSmtpForTest
       THEN smtpTest' = [smtpTest EXCEPT !.smtpTestState = "error",
                                         !.smtpTestElapsedSec = 0]
       ELSE /\ smtpTest.tests < MaxTests
            /\ LET cleared == ClearTicker(smtpTest)
                   payload == [host |-> smtpTest.smtpHost, port |-> smtpTest.smtpPort,
                               username |-> effectiveSmtpUsername,
                               password |-> smtpTest.smtpPassword]
               IN smtpTest' = [cleared EXCEPT
                                 !.isTestingSmtp = TRUE,
                                 !.smtpTestState = "testing",
                                 !.smtpTestElapsedSec = 0,
                                 !.smtpTestTickerRef = cleared.nextInterval,
                                 !.intervals = @ \cup {cleared.nextInterval},
                                 !.nextInterval = @ + 1,
                                 !.call = << [tauri |-> tauri, payload |-> payload] >>,
                                 !.tests = @ + 1]
  /\ UNCHANGED <<jobVars, draft>>

\* the callback of a running interval timer: setSmtpTestElapsedSec
SmtpTestTick ==
  /\ smtpTest.intervals # {}
  /\ smtpTest.smtpTestElapsedSec < MaxTicks
  /\ smtpTest' = [smtpTest EXCEPT !.smtpTestElapsedSec = @ + 1]
  /\ UNCHANGED <<jobVars, draft>>

\* handleTestSmtp whose finally block leaves the interval timer running
TestSmtpSettlesKeepsTicker ==
  /\ smtpTest.call # <<>>
  /\ \E outcome \in testSmtp(smtpTest.call[1].tauri, smtpTest.call[1].payload) :
       smtpTest' = [smtpTest EXCEPT
                      !.smtpTestState = IF outcome = "resolved" THEN "success" ELSE "error",
                      !.isTestingSmtp = FALSE,
                      !.call = <<>>]
  /\ UNCHANGED <<jobVars, draft>>

\* App.handleTestSmtp after its await: success when testSmtp resolved, the
\* catch block when it threw, then the finally block
TestSmtpSettles ==
  /\ smtpTest.call # <<>>
  /\ \E outcome \in testSmtp(smtpTest.call[1].tauri, smtpTest.call[1].payload) :
       smtpTest' = [ClearTicker(smtpTest) EXCEPT
                      !.smtpTestState = IF outcome = "resolved" THEN "success" ELSE "error",
                      !.isTestingSmtp = FALSE,
                      !.call = <<>>]
  /\ UNCHANGED <<jobVars, draft>>

NextSmtp ==
  \/ MountEffects
  \/ HydratedRender
  \/ SetSmtpField
  \/ \E tauri \in BOOLEAN : HandleTestSmtp(tauri)
  \/ SmtpTestTick
  \/ TestSmtpSettles

\* the SMTP form and the connection test on their own; a testSmtp call
\* that was made settles
SpecSmtp == Init /\ [][NextSmtp]_vars /\ WF_vars(TestSmtpSettles)

\* ------------------------------------------------------------------ C39
\* C39: a connection test is started only while none is in progress; a
\* click with an invalid form goes to state error without entering
\* testing; while testing, isTestingSmtp is set, the testSmtp call is
\* pending and exactly the one interval timer of the ref is running;
\* outside testing no call is pending, isTestingSmtp is false and no
\* interval timer is running; every test that entered testing ends in
\* success or error.
C39_SmtpTestStateMachine ==
  /\ [](/\ smtpTest.smtpTestState = "testing" <=> smtpTest.isTestingSmtp
        /\ smtpTest.isTestingSmtp <=> smtpTest.call # <<>>
        /\ smtpTest.isTestingSmtp =>
             /\ smtpTest.smtpTestTickerRef # 0
             /\ smtpTest.intervals = {smtpTest.smtpTestTickerRef}
        /\ ~smtpTest.isTestingSmtp =>
             /\ smtpTest.smtpTestTickerRef = 0
             /\ smtpTest.intervals = {})
  /\ [][ /\ smtpTest'.tests # smtpTest.tests =>
              /\ ~smtpTest.isTestingSmtp
              /\ ~validateSmtpForTest
              /\ smtpTest'.smtpTestState = "testing"
         /\ (smtpTest.smtpTestState # "testing" /\ smtpTest'.smtpTestState = "testing") =>
              smtpTest'.tests = smtpTest.tests + 1
         /\ (smtpTest.smtpTestState = "testing" /\ smtpTest'.smtpTestState # "testing") =>
              smtpTest'.smtpTestState \in {"success", "error"}
    ]_vars
  /\ (smtpTest.smtpTestState = "testing") ~>
       (smtpTest.smtpTestState \in {"success", "error"} /\ ~smtpTest.isTestingSmtp
          /\ smtpTest.intervals = {})

\* a second test has ended in error after its timer ticked, with both
\* timers cleared
C39_Witness ==
  /\ smtpTest.tests = 2
  /\ smtpTest.smtpTestState = "error"
  /\ smtpTest.smtpTestElapsedSec > 0
  /\ ~smtpTest.isTestingSmtp
  /\ smtpTest.nextInterval = 3
  /\ smtpTest.intervals = {}

\* ------------------------------------------------------------------ draft
MaxReloads == 2

\* App.handleResetDraft once the user has confirmed, with the draft: the
\* fields are set to their initial values and the stored draft is removed;
\* the render that follows saves the draft when a field of the draft
\* changed
HandleResetDraftStored ==
  /\ Mounted
  /\ bodyText' = DEFAULT_BODY_TEXT
  /\ recipients' = <<>>
  /\ smtpTest' = [smtpTest EXCEPT !.senderEmail = <<>>,
                                  !.smtpHost = DEFAULT_SMTP_HOST,
                                  !.smtpPort = DEFAULT_SMTP_PORT,
                                  !.smtpPassword = <<>>]
  /\ draft' = DraftEffect([draft EXCEPT !.stored = <<>>], smtpTest', draft.draftHydrated)
  /\ UNCHANGED <<flows, timerQueue, nextTimerId, events, isSending, cancelClicks,
                 clearRequests, summary, minDelaySec, maxDelaySec, skipSent, tauriVars,
                 callOutcomes, pickedDelay>>

\* the page is loaded again: the state of AppContent starts afresh,
\* localStorage stays
Reload ==
  /\ draft.reloads < MaxReloads
  /\ smtpTest' = InitialSmtpTest
  /\ draft' = [InitialDraft EXCEPT !.stored = draft.stored, !.reloads = draft.reloads + 1]
  /\ UNCHANGED jobVars

NextDraft ==
  \/ MountEffects
  \/ HydratedRender
  \/ SetSmtpField
  \/ HandleResetDraftStored
  \/ Reload

\* the draft fields, their effects and the stored draft over page loads
SpecDraft == Init /\ [][NextDraft]_vars

\* ------------------------------------------------------------------ C40
\* saveDraft runs only after draftHydrated is true, and mounting the page
\* over a stored draft leaves that draft stored and puts it into the fields
SavedAfterHydration ==
  /\ (draft'.stored # draft.stored /\ draft'.stored # <<>>) => draft.draftHydrated
  /\ (draft.phase # "idle" /\ draft.stored # <<>>) =>
       /\ draft'.stored = draft.stored
       /\ draft'.phase = "idle" => DraftOf(smtpTest') = draft.stored[1]

\* C40 as stated: the draft is saved only after hydration, the initial
\* values never overwrite a stored draft, and after handleResetDraft the
\* stored draft holds the default values.
C40_DraftSavedAfterHydration ==
  [][ /\ SavedAfterHydration
      /\ HandleResetDraftStored => draft'.stored = << DefaultDraft >>
    ]_vars

\* C40, amended: the draft is saved only after hydration, the initial
\* values never overwrite a stored draft, and after handleResetDraft the
\* fields hold the default values and the stored draft holds them too, or,
\* when the fields of the draft already held the default values, no draft
\* is stored.
C40_ResetStoresDefaultsOrNothing ==
  [][ /\ SavedAfterHydration
      /\ HandleResetDraftStored =>
           /\ DraftOf(smtpTest') = DefaultDraft
           /\ draft'.stored = IF DraftOf(smtpTest) = DefaultDraft
                                THEN <<>> ELSE << DefaultDraft >>
    ]_vars

\* the page was loaded again over a stored draft, hydrated, and after a
\* reset of fields that held the default values no draft is stored
C40_Witness ==
  /\ Mounted
  /\ draft.draftHydrated
  /\ draft.reloads > 0
  /\ draft.stored = <<>>
====
